---- MODULE Spec2Model ----
(***************************************************************************)
(* A model of the semantic analyser of libminizinc (lib/typecheck.cpp):    *)
(* the scope stack, the topological sorter, the coercion inserter, the     *)
(* declaration typer and the enum elaborator.                              *)
(***************************************************************************)
EXTENDS Integers, Sequences, FiniteSets, TLC

VARIABLES
  scopes,            \* Scopes::_s, the scope stack (index 1 is the C++ index 0)
  lastOp,            \* the last Scopes operation called from outside and what it returned
  ignoreUnknownIds,  \* env.ignoreUnknownIds
  pos,               \* TopoSorter::pos (NoPos: no entry)
  decls,             \* TopoSorter::decls
  stack,             \* the calls of TopoSorter::run in progress, innermost last
  uses,              \* <<u, d>>: an Id inside declaration u has been bound to d
  pc,                \* where typecheck is
  nextItem,          \* the next item TSV1 visits
  err,               \* the TypeError thrown out of typecheck ("none": none)
  typeErrors,        \* the error list handed to typecheck
  nLocals,           \* let-declarations met so far
  nIds,              \* identifier occurrences walked so far
  coerced,           \* the last call of add_coercion: its arguments and its outcome
  enumE,             \* the enum declaration handed to create_enum_mapper and what it built
  shown,             \* the evaluation of the generated _toString_E
  applied,           \* the evaluation of a generated constructor function
  model              \* the Model handed to typecheck: what its later passes read and write

scopeVars == <<scopes, lastOp>>

topoVars == <<ignoreUnknownIds, pos, decls, stack, uses, pc, nextItem, err, typeErrors,
              nLocals, nIds>>

\* what the topological sorter never touches
notTopo == <<lastOp, coerced, enumE, shown, applied, model>>

\* what the scope stack driven on its own never touches
notScopes == <<topoVars, coerced, enumE, shown, applied, model>>

\* what the typer never touches
notTyper == <<scopes, lastOp, ignoreUnknownIds, pos, decls, stack, uses, nLocals, nIds,
              enumE, shown, applied, model>>

\* what the enum elaborator never touches
notEnum == <<scopes, lastOp, ignoreUnknownIds, pos, decls, stack, uses, nLocals, nIds,
             coerced, nextItem, err, typeErrors, model>>

vars == <<scopes, lastOp, ignoreUnknownIds, pos, decls, stack, uses, pc, nextItem, err,
          typeErrors, nLocals, nIds, coerced, enumE, shown, applied, model>>

(***************************************************************************)
(* Bounds of the model.                                                    *)
(***************************************************************************)
\* deepest scope stack at which ScopesSpec pushes a scope and the topological
\* sorter enters a let expression
MaxDepth == 3

\* identifier occurrences in the model handed to typecheck
MaxIds == 3

\* parts of an enum declaration
MaxParts == 3

(***************************************************************************)
(* Identifiers and declarations.                                           *)
(* An Id is its string v and its number idn (-1 when it has a string).     *)
(* The anonymous identifier is the empty string with idn -1.               *)
(***************************************************************************)
AnonId == [v |-> "", idn |-> -1]

\* the names of the toplevel declarations, in item order
TopDeclName == <<"x", "y", "z">>

NDecls == Len(TopDeclName)

\* a name no declaration has
UndefName == "u"

\* the names of the declarations made inside let expressions, in walk order
LocalName == <<"l">>

MaxLocals == Len(LocalName)

Name(nm) == [v |-> nm, idn |-> -1]

NamedIds ==
  {Name(TopDeclName[i]) : i \in 1..Len(TopDeclName)}
    \cup {Name(LocalName[i]) : i \in 1..Len(LocalName)}
    \cup {Name(UndefName), [v |-> "", idn |-> 0]}

\* the identifiers the caller of ScopesSpec uses
ScopeIds == {Name("x"), [v |-> "", idn |-> 0]}

Ids == NamedIds \cup {AnonId}

\* the null pointer returned by Scopes::find
NoDecl == [id |-> AnonId, uid |-> 0]

\* The VarDecl objects handed to Scopes::add by ScopesSpec: the identifier, and
\* whether the declaration is an enum with a right-hand side (ti()->isEnum() &&
\* e() != nullptr); uid, the object's identity, is given when it is added.
\* Anonymous declarations are the `_` placeholders of generators: no enum.
VarDecls ==
  {[id |-> i, enum |-> b] : i \in ScopeIds, b \in BOOLEAN}
    \cup {[id |-> AnonId, enum |-> FALSE]}

ScopeKinds == {"ST_TOPLEVEL", "ST_FUN", "ST_INNER"}

EmptyMap == [i \in NamedIds |-> NoDecl]

NewScope(st) == [st |-> st, m |-> EmptyMap]

\* Scope::toplevel()
IsToplevel(sc) == sc.st = "ST_TOPLEVEL"

\* _s[i].m.find(id) != end
Has(sc, ident) == ident \in NamedIds /\ sc.m[ident] # NoDecl

\* the declaration objects of the topological sorter: the toplevel ones, then
\* the ones made inside let expressions
DeclUids == 1..(NDecls + MaxLocals)

TopUids == 1..NDecls

\* no entry in TopoSorter::pos
NoPos == -2

(***************************************************************************)
(* Scopes::add                                                             *)
(***************************************************************************)
\* a plausible slip: the loop never stops at the function or toplevel scope
RECURSIVE ShadowLoopAll(_, _, _)
ShadowLoopAll(s, i, ident) ==
  IF i < 1 THEN FALSE
  ELSE IF Has(s[i], ident) THEN TRUE
  ELSE ShadowLoopAll(s, i - 1, ident)

\* the loop of lines 42-56: does some scope from index i downwards, up to and
\* including the first scope that is not ST_INNER, hold the identifier?
RECURSIVE ShadowLoop(_, _, _)
ShadowLoop(s, i, ident) ==
  IF i < 1 THEN FALSE
  ELSE IF Has(s[i], ident) THEN TRUE
  ELSE IF s[i].st # "ST_INNER" THEN FALSE
  ELSE ShadowLoop(s, i - 1, ident)

\* a plausible slip: only numbered identifiers are checked
DupIsErrorNumbered(ident) == ident.idn > -1

\* the guard of the "already defined" throw (line 62)
DupIsError(ident) == ident.idn >= -1

\* Scopes::add(env, vd): the stack afterwards, the TypeError thrown ("none" when
\* it returns) and whether env.addWarning was called.
ScopesAdd(s, vd) ==
  LET top == s[Len(s)]
      warned == top.st = "ST_INNER" /\ ShadowLoop(s, Len(s) - 1, vd.id)
  IN
  IF ~IsToplevel(top) /\ vd.enum
    THEN [s |-> s, err |-> "enums are only allowed at top level", warned |-> FALSE]
  ELSE IF vd.id.idn = -1 /\ vd.id.v = ""
    THEN [s |-> s, err |-> "none", warned |-> FALSE]
  ELSE IF ~Has(top, vd.id)
    THEN [s |-> [s EXCEPT ![Len(s)].m[vd.id] = [id |-> vd.id, uid |-> vd.uid]],
          err |-> "none", warned |-> warned]
  ELSE IF DupIsError(vd.id)
    THEN [s |-> s, err |-> "already defined", warned |-> warned]
  ELSE [s |-> s, err |-> "none", warned |-> warned]

(***************************************************************************)
(* Scopes::find                                                            *)
(***************************************************************************)
\* a plausible slip: keep stepping outwards lexically from a toplevel scope
ToplevelJumpLexical(cur) == cur - 1

\* where the search continues from a toplevel scope cur > 0 that lacks the id
ToplevelJump(cur) == 1

\* the for(;;) loop of Scopes::find from index cur; seen collects the indices
\* whose map was consulted, in order
RECURSIVE FindLoop(_, _, _, _)
FindLoop(s, cur, ident, seen) ==
  IF Has(s[cur], ident)
    THEN [decl |-> s[cur].m[ident], seen |-> Append(seen, cur)]
  ELSE IF IsToplevel(s[cur])
    THEN IF cur > 1
           THEN FindLoop(s, ToplevelJump(cur), ident, Append(seen, cur))
           ELSE [decl |-> NoDecl, seen |-> Append(seen, cur)]
  ELSE FindLoop(s, cur - 1, ident, Append(seen, cur))

ScopesFind(s, ident) == FindLoop(s, Len(s), ident, <<>>)

(***************************************************************************)
(* The scope stack driven by an arbitrary caller (ScopesSpec).             *)
(***************************************************************************)
Tick == 1 - lastOp.tick

NoOp == [op |-> "new", tick |-> 0, id |-> AnonId, enum |-> FALSE, err |-> "none",
         warned |-> FALSE, decl |-> NoDecl, seen |-> <<>>]

\* add_coercion has not been called
NoCall == [msg |-> "no call"]

\* no enum declaration is being elaborated
NoEnum == [parts |-> <<>>, partCardinality |-> <<>>, prev |-> <<>>, garbage |-> "none",
           constructorArgMin |-> <<>>, members |-> <<>>, upperBound |-> 0]

\* the generated _toString_E has not been evaluated
NoShow == [x |-> [occurs |-> FALSE, v |-> 0], b |-> FALSE, json |-> FALSE,
           r |-> [form |-> "not evaluated", part |-> 0, n |-> 0]]

\* no generated constructor function has been evaluated
NoApply == [fn |-> "none", part |-> 0, x |-> 0, r |-> 0]

\* no model is being passed through the later passes of typecheck
NoModel == [pass |-> "none"]

\* the topological sorter before typecheck is called
TopoIdle ==
  /\ ignoreUnknownIds = FALSE
  /\ pos = [d \in DeclUids |-> NoPos]
  /\ decls = <<>>
  /\ stack = <<>>
  /\ uses = {}
  /\ pc = "idle"
  /\ nextItem = 1
  /\ err = "none"
  /\ typeErrors = <<>>
  /\ nLocals = 0
  /\ nIds = 0

\* Scopes::Scopes()
ScopesInit ==
  /\ scopes = <<NewScope("ST_TOPLEVEL")>>
  /\ lastOp = NoOp
  /\ coerced = NoCall
  /\ enumE = NoEnum
  /\ shown = NoShow
  /\ applied = NoApply
  /\ model = NoModel
  /\ TopoIdle

PushToplevel ==
  /\ Len(scopes) < MaxDepth
  /\ scopes' = Append(scopes, NewScope("ST_TOPLEVEL"))
  /\ lastOp' = [NoOp EXCEPT !.op = "pushToplevel", !.tick = Tick]
  /\ UNCHANGED notScopes

PushFun ==
  /\ Len(scopes) < MaxDepth
  /\ scopes' = Append(scopes, NewScope("ST_FUN"))
  /\ lastOp' = [NoOp EXCEPT !.op = "pushFun", !.tick = Tick]
  /\ UNCHANGED notScopes

Push ==
  /\ Len(scopes) < MaxDepth
  /\ scopes' = Append(scopes, NewScope("ST_INNER"))
  /\ lastOp' = [NoOp EXCEPT !.op = "push", !.tick = Tick]
  /\ UNCHANGED notScopes

\* every caller pairs pop with an earlier push: scope 0 is never popped
Pop ==
  /\ Len(scopes) > 1
  /\ scopes' = SubSeq(scopes, 1, Len(scopes) - 1)
  /\ lastOp' = [NoOp EXCEPT !.op = "pop", !.tick = Tick]
  /\ UNCHANGED notScopes

\* the object added is told apart from the others by the depth it is added at
Add(vd) ==
  LET r == ScopesAdd(scopes, [id |-> vd.id, enum |-> vd.enum, uid |-> Len(scopes)]) IN
  /\ scopes' = r.s
  /\ lastOp' = [NoOp EXCEPT !.op = "add", !.tick = Tick, !.id = vd.id,
                            !.enum = vd.enum, !.err = r.err, !.warned = r.warned]
  /\ UNCHANGED notScopes

Find(ident) ==
  LET r == ScopesFind(scopes, ident) IN
  /\ scopes' = scopes
  /\ lastOp' = [NoOp EXCEPT !.op = "find", !.tick = Tick, !.id = ident,
                            !.decl = r.decl, !.seen = r.seen]
  /\ UNCHANGED notScopes

ScopesNext ==
  \/ PushToplevel
  \/ PushFun
  \/ Push
  \/ Pop
  \/ \E vd \in VarDecls : Add(vd)
  \/ \E ident \in ScopeIds : Find(ident)

ScopesSpec == ScopesInit /\ [][ScopesNext]_vars

(***************************************************************************)
(* TopoSorter: the walk of TSV1 over the items of the model.               *)
(*                                                                         *)
(* The model handed to typecheck has NDecls toplevel declarations, named   *)
(* TopDeclName[1..NDecls], one VarDeclI item each, in that order, followed *)
(* by one constraint item.  The expressions are not fixed beforehand: what *)
(* the walk meets next inside the expression it is in (an identifier, a    *)
(* let, an annotation, or the end of the expression) is chosen when it     *)
(* gets there.  The type-inst and the initialiser of a declaration are     *)
(* walked one after the other (lines 1335-1336) and form one expression    *)
(* here.  Declarations carry no annotations of their own.                  *)
(*                                                                         *)
(* A frame of stack is a call in progress:                                 *)
(*   k = "vd"   run(VarDecl d), entered from via: "item" (TSV1::vVarDeclI),*)
(*              "id" (checkId, line 1220) or "let" (line 1358)             *)
(*   k = "con"  run of the expression of the constraint item               *)
(*   k = "let"  run(Let), between scopes.push() and scopes.pop()           *)
(*   k = "try"  run of an annotation inside the try block of line 1380     *)
(*   k = "ann"  run of an annotation at line 1391 (no try)                 *)
(***************************************************************************)
Frame(k, d, via) == [k |-> k, d |-> d, via |-> via]

Top == stack[Len(stack)]

Walking == pc = "tsv1" /\ Len(stack) > 0

\* an annotation is being walked
InAnnotation(stk) == \E i \in 1..Len(stk) : stk[i].k \in {"try", "ann"}

\* the declarations whose type-inst or initialiser contains the expression
\* being walked: the "vd" frames from the top down to the first one that was
\* not entered from a let
RECURSIVE Owners(_, _)
Owners(stk, i) ==
  IF i < 1 THEN {}
  ELSE IF stk[i].k = "vd"
    THEN IF stk[i].via = "let" THEN {stk[i].d} \cup Owners(stk, i - 1) ELSE {stk[i].d}
  ELSE IF stk[i].k = "con" THEN {}
  ELSE Owners(stk, i - 1)

\* the try block that catches a TypeError thrown now (0: none)
CatchIndex(stk) ==
  IF \E i \in 1..Len(stk) : stk[i].k = "try"
    THEN CHOOSE i \in 1..Len(stk) : stk[i].k = "try" /\ \A j \in (i + 1)..Len(stk) : stk[j].k # "try"
    ELSE 0

\* a plausible slip: the error is recorded in the list and the walk goes on
ThrowAccumulate(msg) ==
  /\ stack' = stack
  /\ err' = err
  /\ pc' = pc
  /\ typeErrors' = Append(typeErrors, msg)

\* throw TypeError(msg): caught by the innermost try block of line 1380, whose
\* annotation is then dropped, or else thrown out of typecheck (iter_items at
\* line 3228 is in no try block); neither pos nor the scope stack is restored
Throw(msg) ==
  /\ typeErrors' = typeErrors
  /\ IF CatchIndex(stack) = 0
       THEN /\ stack' = <<>>
            /\ err' = msg
            /\ pc' = "thrown"
       ELSE /\ stack' = SubSeq(stack, 1, CatchIndex(stack) - 1)
            /\ err' = err
            /\ pc' = pc

\* a plausible slip: a declaration being visited is taken as sorted
IsCircularNever(p) == FALSE

\* the test of line 1224
IsCircular(p) == p = -1

RECURSIVE AddAll(_, _)
AddAll(s, k) ==
  IF k = 0 THEN s
  ELSE ScopesAdd(AddAll(s, k - 1),
                 [id |-> Name(TopDeclName[k]), enum |-> FALSE, uid |-> k]).s

\* typecheck is called; TSV0 registers every toplevel declaration in scope 0
\* (TopoSorter::add, line 1186)
TSV0 ==
  /\ pc = "tsv0"
  /\ scopes' = AddAll(scopes, NDecls)
  /\ pc' = "tsv1"
  /\ UNCHANGED <<notTopo, ignoreUnknownIds, pos, decls, stack, uses, nextItem, err,
                 typeErrors, nLocals, nIds>>

\* TSV1::vVarDeclI: run(env, i->e()) on a declaration not seen yet (line 1333)
VisitItem ==
  /\ pc = "tsv1" /\ stack = <<>> /\ nextItem <= NDecls
  /\ pos[nextItem] = NoPos
  /\ pos' = [pos EXCEPT ![nextItem] = -1]
  /\ stack' = <<Frame("vd", nextItem, "item")>>
  /\ nextItem' = nextItem + 1
  /\ UNCHANGED <<scopes, notTopo, ignoreUnknownIds, decls, uses, pc, err, typeErrors,
                 nLocals, nIds>>

\* TSV1::vVarDeclI on a declaration that has a position: nothing to do; when
\* the position is -1 the assertion of line 1342 fails in a build that keeps
\* assertions and is skipped in one that does not
VisitSeenItem ==
  /\ pc = "tsv1" /\ stack = <<>> /\ nextItem <= NDecls
  /\ pos[nextItem] # NoPos
  /\ \/ /\ pos[nextItem] # -1
        /\ nextItem' = nextItem + 1
        /\ pc' = pc
     \/ /\ pos[nextItem] = -1
        /\ nextItem' = nextItem + 1
        /\ pc' = pc
     \/ /\ pos[nextItem] = -1
        /\ nextItem' = nextItem
        /\ pc' = "aborted"
  /\ UNCHANGED <<scopes, notTopo, ignoreUnknownIds, pos, decls, stack, uses, err,
                 typeErrors, nLocals, nIds>>

\* TSV1::vConstraintI: run(env, i->e())
VisitConstraint ==
  /\ pc = "tsv1" /\ stack = <<>> /\ nextItem = NDecls + 1
  /\ stack' = <<Frame("con", 0, "item")>>
  /\ nextItem' = nextItem + 1
  /\ UNCHANGED <<scopes, notTopo, ignoreUnknownIds, pos, decls, uses, pc, err,
                 typeErrors, nLocals, nIds>>

\* the expression of the constraint item has been walked
FinishConstraint ==
  /\ Walking /\ Top.k = "con"
  /\ stack' = <<>>
  /\ UNCHANGED <<scopes, notTopo, ignoreUnknownIds, pos, decls, uses, pc, nextItem, err,
                 typeErrors, nLocals, nIds>>

\* run(env, e) on an Id named nm: checkId (lines 1205-1231), then e->decl(vd)
RunId(nm) ==
  /\ Walking /\ nIds < MaxIds
  /\ nIds' = nIds + 1
  /\ LET decl == ScopesFind(scopes, Name(nm)).decl IN
     IF decl = NoDecl
       THEN /\ Throw("undefined identifier")
            /\ UNCHANGED <<scopes, pos, uses>>
     ELSE IF pos[decl.uid] = NoPos
       THEN /\ scopes' = Append(scopes, NewScope("ST_TOPLEVEL"))
            /\ pos' = [pos EXCEPT ![decl.uid] = -1]
            /\ stack' = Append(stack, Frame("vd", decl.uid, "id"))
            /\ UNCHANGED <<uses, err, pc, typeErrors>>
     ELSE IF IsCircular(pos[decl.uid])
       THEN /\ Throw("circular definition")
            /\ UNCHANGED <<scopes, pos, uses>>
     ELSE /\ uses' = uses \cup (Owners(stack, Len(stack)) \X {decl.uid})
          /\ stack' = stack
          /\ UNCHANGED <<scopes, pos, err, pc, typeErrors>>
  /\ UNCHANGED <<notTopo, ignoreUnknownIds, decls, nextItem, nLocals>>

\* run(env, e) on a Let: scopes.push() (line 1356)
LetOpen ==
  /\ Walking /\ Len(scopes) < MaxDepth
  /\ scopes' = Append(scopes, NewScope("ST_INNER"))
  /\ stack' = Append(stack, Frame("let", 0, "let"))
  /\ UNCHANGED <<notTopo, ignoreUnknownIds, pos, decls, uses, pc, nextItem, err,
                 typeErrors, nLocals, nIds>>

\* the next item of the let is a declaration: run(env, let->let()[i]) enters
\* E_VARDECL on a new object (line 1334)
LetDecl ==
  /\ Walking /\ Top.k = "let" /\ nLocals < MaxLocals
  /\ nLocals' = nLocals + 1
  /\ pos' = [pos EXCEPT ![NDecls + nLocals + 1] = -1]
  /\ stack' = Append(stack, Frame("vd", NDecls + nLocals + 1, "let"))
  /\ UNCHANGED <<scopes, notTopo, ignoreUnknownIds, decls, uses, pc, nextItem, err,
                 typeErrors, nIds>>

\* the in-expression of the let has been walked: scopes.pop() (line 1374)
LetClose ==
  /\ Walking /\ Top.k = "let"
  /\ scopes' = SubSeq(scopes, 1, Len(scopes) - 1)
  /\ stack' = SubSeq(stack, 1, Len(stack) - 1)
  /\ UNCHANGED <<notTopo, ignoreUnknownIds, pos, decls, uses, pc, nextItem, err,
                 typeErrors, nLocals, nIds>>

\* the expression just walked has an annotation: run(env, *it), inside the try
\* block when env.ignoreUnknownIds (lines 1377-1393)
AnnOpen ==
  /\ Walking /\ ~InAnnotation(stack)
  /\ stack' = Append(stack, Frame(IF ignoreUnknownIds THEN "try" ELSE "ann", 0, "ann"))
  /\ UNCHANGED <<scopes, notTopo, ignoreUnknownIds, pos, decls, uses, pc, nextItem, err,
                 typeErrors, nLocals, nIds>>

\* the annotation has been walked without a TypeError
AnnClose ==
  /\ Walking /\ Top.k \in {"try", "ann"}
  /\ stack' = SubSeq(stack, 1, Len(stack) - 1)
  /\ UNCHANGED <<scopes, notTopo, ignoreUnknownIds, pos, decls, uses, pc, nextItem, err,
                 typeErrors, nLocals, nIds>>

\* the type-inst and the initialiser of the declaration have been walked: it
\* is appended to decls and gets its position (lines 1337-1340); then control
\* is back in the caller: checkId pops the toplevel scope and the Id is bound
\* (lines 1221, 1261), a let adds the declaration to its scope (line 1360)
FinishDecl ==
  /\ Walking /\ Top.k = "vd"
  /\ LET d == Top.d
         rest == SubSeq(stack, 1, Len(stack) - 1)
         local == LocalName[IF d > NDecls THEN d - NDecls ELSE 1]
         added == ScopesAdd(scopes, [id |-> Name(local), enum |-> FALSE, uid |-> d])
     IN
     /\ decls' = Append(decls, d)
     /\ pos' = [pos EXCEPT ![d] = Len(decls)]
     /\ IF Top.via = "id"
          THEN /\ scopes' = SubSeq(scopes, 1, Len(scopes) - 1)
               /\ uses' = uses \cup (Owners(rest, Len(rest)) \X {d})
               /\ stack' = rest
               /\ UNCHANGED <<err, pc, typeErrors>>
        ELSE IF Top.via = "let"
          THEN /\ uses' = uses
               /\ IF added.err = "none"
                    THEN /\ scopes' = added.s
                         /\ stack' = rest
                         /\ UNCHANGED <<err, pc, typeErrors>>
                    ELSE /\ scopes' = scopes
                         /\ typeErrors' = typeErrors
                         /\ IF CatchIndex(rest) = 0
                              THEN stack' = <<>> /\ err' = added.err /\ pc' = "thrown"
                              ELSE /\ stack' = SubSeq(rest, 1, CatchIndex(rest) - 1)
                                   /\ err' = err /\ pc' = pc
        ELSE /\ stack' = rest
             /\ UNCHANGED <<scopes, uses, err, pc, typeErrors>>
  /\ UNCHANGED <<notTopo, ignoreUnknownIds, nextItem, nLocals, nIds>>

\* iter_items(_tsv1, m) has visited every item
TSV1Done ==
  /\ pc = "tsv1" /\ stack = <<>> /\ nextItem = NDecls + 2
  /\ pc' = "done"
  /\ UNCHANGED <<scopes, notTopo, ignoreUnknownIds, pos, decls, stack, uses, nextItem, err,
                 typeErrors, nLocals, nIds>>

\* the items of the model in item order: the declaration items, then the
\* constraint item
ModelItems ==
  [k \in 1..(NDecls + 1) |->
     IF k <= NDecls THEN [kind |-> "VarDeclI", d |-> k] ELSE [kind |-> "ConstraintI", d |-> 0]]

\* SortByPayload::operator() (lines 3233-3246), payload giving the payload of
\* each declaration
SortByPayload(i0, i1, payload) ==
  IF i0.kind = "IncludeI" THEN i1.kind # "IncludeI"
  ELSE IF i0.kind = "VarDeclI"
    THEN IF i1.kind = "VarDeclI" THEN payload[i0.d] < payload[i1.d]
         ELSE i1.kind # "IncludeI"
  ELSE FALSE

\* std::stable_sort (line 3248) on the first n items: each item is put before
\* the first item it is less than, after every other one
RECURSIVE StableSort(_, _, _)
StableSort(items, n, payload) ==
  IF n = 0 THEN <<>>
  ELSE LET sorted == StableSort(items, n - 1, payload)
           greater == {k \in 1..Len(sorted) : SortByPayload(items[n], sorted[k], payload)}
           at == IF greater = {} THEN Len(sorted) + 1
                 ELSE CHOOSE k \in greater : \A j \in greater : k <= j
       IN SubSeq(sorted, 1, at - 1) \o <<items[n]>> \o SubSeq(sorted, at, Len(sorted))

\* m->sortFn() and the stable sort of the items (lines 3230-3249).  The
\* payload of a declaration is the position it was pushed to decls at (line
\* 1337); one that was never pushed still has the payload it was constructed
\* with, initial here
SortItems(initial) ==
  /\ pc = "done"
  /\ pc' = "sorted"
  /\ model' = [pass |-> "sorted",
               items |-> StableSort(ModelItems, Len(ModelItems),
                                    [d \in 1..NDecls |->
                                       IF pos[d] >= 0 THEN pos[d] ELSE initial])]
  /\ UNCHANGED <<scopes, lastOp, coerced, enumE, shown, applied, ignoreUnknownIds, pos,
                 decls, stack, uses, nextItem, err, typeErrors, nLocals, nIds>>

\* the names the identifier occurrences of the model are drawn from
IdNames ==
  {TopDeclName[i] : i \in 1..NDecls} \cup {LocalName[i] : i \in 1..MaxLocals}
    \cup {UndefName}

\* typecheck is called on a model, with or without env.ignoreUnknownIds
Init ==
  /\ scopes = <<NewScope("ST_TOPLEVEL")>>
  /\ lastOp = NoOp
  /\ coerced = NoCall
  /\ enumE = NoEnum
  /\ shown = NoShow
  /\ applied = NoApply
  /\ model = NoModel
  /\ ignoreUnknownIds \in BOOLEAN
  /\ pos = [d \in DeclUids |-> NoPos]
  /\ decls = <<>>
  /\ stack = <<>>
  /\ uses = {}
  /\ pc = "tsv0"
  /\ nextItem = 1
  /\ err = "none"
  /\ typeErrors = <<>>
  /\ nLocals = 0
  /\ nIds = 0

Next ==
  \/ TSV0
  \/ VisitItem
  \/ VisitSeenItem
  \/ VisitConstraint
  \/ FinishConstraint
  \/ \E nm \in IdNames : RunId(nm)
  \/ LetOpen
  \/ LetDecl
  \/ LetClose
  \/ AnnOpen
  \/ AnnClose
  \/ FinishDecl
  \/ TSV1Done
  \/ \E initial \in {0, NDecls + MaxLocals} : SortItems(initial)

Spec == Init /\ [][Next]_vars

(***************************************************************************)
(* Types.  A Type is its base type bt, its dimension dim, its type-inst ti *)
(* (par or var), its optionality ot and its set type st.                   *)
(***************************************************************************)
BaseTypes == {"BT_BOT", "BT_BOOL", "BT_INT", "BT_FLOAT", "BT_STRING", "BT_TOP"}

Dims == {0, 1}

Types ==
  [bt : BaseTypes, dim : Dims, ti : {"TI_PAR", "TI_VAR"}, ot : {"OT_PRESENT", "OT_OPTIONAL"},
   st : {"ST_PLAIN", "ST_SET"}]

\* the types an expression can have after typing: never BT_TOP
ExprTypes == {t \in Types : t.bt # "BT_TOP"}

\* Type::bot(1)
Bot1 ==
  [bt |-> "BT_BOT", dim |-> 1, ti |-> "TI_PAR", ot |-> "OT_PRESENT", st |-> "ST_PLAIN"]

\* Type::btSubtype: the same base type, or one the widening lattice reaches
\* (bool -> int -> float)
BtSubtype(a, b) ==
  \/ a.bt = b.bt
  \/ a.bt = "BT_BOOL" /\ b.bt \in {"BT_INT", "BT_FLOAT"}
  \/ a.bt = "BT_INT" /\ b.bt = "BT_FLOAT"

OtFits(a, b) == a.ot = "OT_PRESENT" \/ a.ot = b.ot

\* EnvI::isSubtype(a, b, strict) on types without enum ids: componentwise,
\* a par set being also a subtype of the array it converts to
IsSubtype(a, b) ==
  \/ /\ a.dim = 0 /\ b.dim # 0 /\ a.st = "ST_SET" /\ b.st = "ST_PLAIN"
     /\ a.bt # "BT_FLOAT"
     /\ (a.bt = "BT_BOT" \/ BtSubtype(a, b) \/ b.bt = "BT_TOP")
     /\ a.ti = "TI_PAR" /\ OtFits(a, b)
  \/ /\ a.dim = b.dim
     /\ \/ (a.ti = b.ti \/ a.ti = "TI_PAR") /\ BtSubtype(a, b) /\ a.st = b.st /\ OtFits(a, b)
        \/ a.ti = "TI_PAR" /\ b.bt = "BT_BOT"
        \/ /\ (a.ti = b.ti \/ a.ti = "TI_PAR") /\ a.bt = "BT_BOT"
           /\ (a.st = b.st \/ a.st = "ST_PLAIN") /\ OtFits(a, b)
        \/ b.bt = "BT_TOP" /\ OtFits(a, b) /\ (b.st = "ST_PLAIN" \/ a.dim > 0)

(***************************************************************************)
(* add_coercion(env, m, e, funarg_t).  The function registry is not part   *)
(* of the function: reg says, for each builtin add_coercion looks up,      *)
(* whether matchFn finds an overload for the argument at hand.             *)
(***************************************************************************)
Registries == [slice : BOOLEAN, set2array : BOOLEAN, conv : BOOLEAN]

\* the return type of set2array: a one-dimensional array of the elements
Set2ArrayRtype(e) == [e EXCEPT !.dim = 1, !.st = "ST_PLAIN"]

\* the return type of bool2int, bool2float and int2float: the argument's type
\* with the base type converted
ConvRtype(e, bt) == [e EXCEPT !.bt = bt]

\* a plausible slip: a bool is converted by bool2int whatever the target is
ConvNameBoolToInt(ebt, tbt) ==
  IF ebt = "BT_BOOL" /\ tbt \in {"BT_INT", "BT_FLOAT"} THEN "bool2int"
  ELSE IF ebt = "BT_INT" /\ tbt = "BT_FLOAT" THEN "int2float"
  ELSE "none"

\* the conversion chosen at lines 1528-1538 ("none": c stays nullptr)
ConvName(ebt, tbt) ==
  IF ebt = "BT_BOOL" /\ tbt = "BT_INT" THEN "bool2int"
  ELSE IF ebt = "BT_BOOL" /\ tbt = "BT_FLOAT" THEN "bool2float"
  ELSE IF ebt = "BT_INT" /\ tbt = "BT_FLOAT" THEN "int2float"
  ELSE "none"

\* matchFn on the conversion call: the conversions are declared for scalars
\* and arrays, not for sets
ConvFound(e, reg) == reg.conv /\ e.st = "ST_PLAIN"

Returned(ty, wrap) == [ok |-> TRUE, ty |-> ty, wrap |-> wrap, msg |-> "none"]

Raised(e, msg) == [ok |-> FALSE, ty |-> e, wrap |-> <<>>, msg |-> msg]

\* a plausible slip: the base types are not compared before e is returned
SameBaseOrFreeAlways(e, t) == TRUE

\* the base-type test of lines 1498-1499
SameBaseOrFree(e, t) ==
  t.bt = "BT_BOT" \/ t.bt = "BT_TOP" \/ e.bt = t.bt \/ e.bt = "BT_BOT"

\* lines 1521-1553, on the expression of type e2 wrapped in the calls w so far
CoerceBase(e2, t, reg, w) ==
  IF t.bt = "BT_TOP" \/ e2.bt = t.bt \/ e2.bt = "BT_BOT" THEN Returned(e2, w)
  ELSE IF ConvName(e2.bt, t.bt) # "none" /\ ConvFound(e2, reg)
    THEN Returned(ConvRtype(e2, t.bt), Append(w, ConvName(e2.bt, t.bt)))
  ELSE Raised(e2, "cannot determine coercion")

\* lines 1497-1520, on the expression of type e wrapped in the calls w so far
CoerceDim(e, t, reg, w) ==
  IF e.dim = t.dim /\ SameBaseOrFree(e, t) THEN Returned(e, w)
  ELSE IF e.dim = 0 /\ t.dim # 0
    THEN IF e.ti = "TI_VAR" THEN Raised(e, "cannot coerce var set into array")
         ELSE IF e.ot = "OT_OPTIONAL" THEN Raised(e, "cannot coerce opt set into array")
         ELSE IF reg.set2array
           THEN CoerceBase(Set2ArrayRtype(e), t, reg, Append(w, "set2array"))
         ELSE CoerceBase(e, t, reg, w)
  ELSE CoerceBase(e, t, reg, w)

\* add_coercion on an expression of type e (aa: it is an ArrayAccess) and the
\* target type t; an array access of array type becomes a slice_Nd call of
\* the same type (lines 1397-1496)
AddCoercionTo(e, aa, t, reg) ==
  IF aa /\ e.dim > 0
    THEN IF reg.slice THEN CoerceDim(e, t, reg, <<"slice">>)
         ELSE Raised(e, "missing builtin")
    ELSE CoerceDim(e, t, reg, <<>>)

\* the registries that can be met with an expression of type e: set2array
\* takes sets only
RegistriesFor(e) ==
  {reg \in Registries : (reg.set2array => e.st = "ST_SET")}

\* the registry with the standard library loaded, as typecheck has it
StdRegistry(e) == [slice |-> TRUE, set2array |-> e.st = "ST_SET", conv |-> TRUE]

\* add_coercion called on its own
AddCoercion(e, aa, t, reg) ==
  /\ pc = "coercing"
  /\ coerced' = [e |-> e, aa |-> aa, t |-> t, reg |-> reg, recorded |-> FALSE,
                 r |-> AddCoercionTo(e, aa, t, reg)]
  /\ pc' = "coerced"
  /\ UNCHANGED <<notTyper, nextItem, err, typeErrors>>

CoerceInit ==
  /\ scopes = <<NewScope("ST_TOPLEVEL")>>
  /\ lastOp = NoOp
  /\ coerced = NoCall
  /\ enumE = NoEnum
  /\ shown = NoShow
  /\ applied = NoApply
  /\ model = NoModel
  /\ ignoreUnknownIds = FALSE
  /\ pos = [d \in DeclUids |-> NoPos]
  /\ decls = <<>>
  /\ stack = <<>>
  /\ uses = {}
  /\ pc = "coercing"
  /\ nextItem = 1
  /\ err = "none"
  /\ typeErrors = <<>>
  /\ nLocals = 0
  /\ nIds = 0

CoerceNext ==
  /\ pc = "coercing"
  /\ \E e \in ExprTypes, t \in Types, aa \in BOOLEAN :
       \E reg \in RegistriesFor(e) : AddCoercion(e, aa, t, reg)

CoerceSpec == CoerceInit /\ [][CoerceNext]_vars

(***************************************************************************)
(* Typer<true>::vVarDecl, called by TSV2 on the toplevel declarations that *)
(* have an initialiser, one item after the other (TyperSpec).  The         *)
(* declarations are not enums and have a declared type; each has the       *)
(* declared type vdt and an initialiser of type vet.                       *)
(***************************************************************************)
\* the declared types of the items: int or float, par or var, scalar or array
DeclTypes ==
  {t \in Types : t.bt \in {"BT_INT", "BT_FLOAT"} /\ t.ot = "OT_PRESENT" /\ t.st = "ST_PLAIN"}

\* the types of their initialisers
InitTypes ==
  {e \in ExprTypes : e.bt \in {"BT_BOOL", "BT_INT", "BT_STRING"} /\ e.ot = "OT_PRESENT"
                       /\ e.st = "ST_PLAIN"}

\* line 2710 and the exception of lines 2711-2718 for the literal []: whether
\* the error of line 2728 is recorded
MismatchRecorded(vet, vdt) ==
  ~IsSubtype(vet, vdt) /\ ~(vet = Bot1 /\ vdt.dim # 0)

\* the type of vd->e() when add_coercion is called at line 2731
InitialiserType(vet, vdt) ==
  IF ~IsSubtype(vet, vdt) /\ vet = Bot1 /\ vdt.dim # 0 THEN vdt ELSE vet

\* TSV2::vVarDeclI on the next item: the typer runs vVarDecl on it
VVarDecl(vet, vdt, aa) ==
  LET reg == StdRegistry(InitialiserType(vet, vdt))
      r == AddCoercionTo(InitialiserType(vet, vdt), aa, vdt, reg)
  IN
  /\ pc = "typing" /\ nextItem <= NDecls
  /\ typeErrors' = IF MismatchRecorded(vet, vdt)
                     THEN Append(typeErrors, "invalid type-inst")
                     ELSE typeErrors
  /\ coerced' = [e |-> InitialiserType(vet, vdt), aa |-> aa, t |-> vdt, reg |-> reg,
                 recorded |-> MismatchRecorded(vet, vdt), r |-> r]
  /\ IF r.ok
       THEN /\ nextItem' = nextItem + 1
            /\ UNCHANGED <<pc, err>>
       ELSE /\ pc' = "thrown"
            /\ err' = r.msg
            /\ nextItem' = nextItem
  /\ UNCHANGED notTyper

\* iter_items(_tsv2, m) has visited every item
TSV2Done ==
  /\ pc = "typing" /\ nextItem = NDecls + 1
  /\ pc' = "typed"
  /\ UNCHANGED <<notTyper, coerced, nextItem, err, typeErrors>>

\* The comparisons Typer::vBinOp looks at (lines 2291-2377): the operator op,
\* whether both sides are int (isint), which side is a Call (callSide), the
\* callee id and whether the call is var; the call has one argument, a
\* comprehension whose body is a BinOp with operator innerOp ("none": not a
\* BinOp) over non-optional sides, the left one int; lhsBound and rhsBound:
\* the side of the body contains a variable the comprehension binds; found:
\* matchFn finds the count_* predicate; otherCall: the other side is a Call
\* too, one that is no sum or count
BinOps ==
  {bo \in [op : {"BOT_EQ", "BOT_GQ", "BOT_GR", "BOT_NQ", "BOT_LE", "BOT_LQ", "BOT_PLUS"},
            isint : BOOLEAN, callSide : {"lhs", "rhs", "none"}, id : {"sum", "count", "max"},
            isvar : BOOLEAN, innerOp : {"BOT_EQ", "BOT_NQ", "none"},
            lhsBound : BOOLEAN, rhsBound : BOOLEAN, found : BOOLEAN, otherCall : BOOLEAN] :
     bo.otherCall => bo.callSide # "none"}

\* the operator as seen from the call: mirrored when the call is the
\* right-hand side (lines 2297-2316)
Mirrored(op, callSide) ==
  IF callSide = "lhs" THEN op
  ELSE IF op = "BOT_LQ" THEN "BOT_GQ"
  ELSE IF op = "BOT_LE" THEN "BOT_GR"
  ELSE IF op = "BOT_GQ" THEN "BOT_LQ"
  ELSE IF op = "BOT_GR" THEN "BOT_LE"
  ELSE op

\* the naming a reader expects: count_geq for >=
CountIdByOperator(bot) ==
  IF bot = "BOT_EQ" THEN "count_eq"
  ELSE IF bot = "BOT_GQ" THEN "count_geq"
  ELSE IF bot = "BOT_GR" THEN "count_gt"
  ELSE IF bot = "BOT_LQ" THEN "count_leq"
  ELSE IF bot = "BOT_LE" THEN "count_lt"
  ELSE "count_neq"

\* the switch of lines 2338-2359
CountId(bot) ==
  IF bot = "BOT_EQ" THEN "count_eq"
  ELSE IF bot = "BOT_GQ" THEN "count_leq"
  ELSE IF bot = "BOT_GR" THEN "count_lt"
  ELSE IF bot = "BOT_LQ" THEN "count_geq"
  ELSE IF bot = "BOT_LE" THEN "count_gt"
  ELSE "count_neq"

NotRewritten == [id |-> "none", args |-> <<>>, decl |-> FALSE, err |-> "none"]

\* lines 2291-2377 on the comparison bo: the call bop is morphed into, its
\* arguments (the side of the body the comprehension now generates, the side
\* it is compared to, and the other side of bop) and whether its declaration
\* is bound
RewriteCount(bo) ==
  IF ~(bo.isint /\ bo.op # "BOT_PLUS") THEN NotRewritten
  ELSE IF bo.callSide = "none" \/ bo.id \notin {"sum", "count"} \/ ~bo.isvar THEN NotRewritten
  ELSE IF bo.callSide = "rhs" /\ bo.otherCall THEN NotRewritten
  ELSE IF bo.innerOp # "BOT_EQ" THEN NotRewritten
  ELSE IF bo.rhsBound /\ bo.lhsBound THEN NotRewritten
  ELSE IF ~bo.found
    THEN [NotRewritten EXCEPT !.err = "could not replace binary operator"]
  ELSE [id |-> CountId(Mirrored(bo.op, bo.callSide)),
        args |-> << IF bo.rhsBound THEN "inner.rhs" ELSE "inner.lhs",
                    IF bo.rhsBound THEN "inner.lhs" ELSE "inner.rhs",
                    IF bo.callSide = "lhs" THEN "bop.rhs" ELSE "bop.lhs" >>,
        decl |-> TRUE, err |-> "none"]

\* Typer::vBinOp on a comparison of the first item the typer visits
VBinOp(bo) ==
  /\ pc = "typing" /\ nextItem = 1
  /\ model' = [pass |-> "vBinOp", bo |-> bo, r |-> RewriteCount(bo)]
  /\ IF RewriteCount(bo).err = "none"
       THEN pc' = "rewritten" /\ err' = err
       ELSE pc' = "thrown" /\ err' = RewriteCount(bo).err
  /\ UNCHANGED <<scopes, lastOp, ignoreUnknownIds, pos, decls, stack, uses, nLocals, nIds,
                 enumE, shown, applied, coerced, nextItem, typeErrors>>

\* bindings a let has at most
MaxLet == 2

\* The bindings of a let (lines 2620-2658): a VarDecl (decl) or a constraint,
\* var or par (isvar); init: the declaration has an initialiser; isbool: the
\* type of the constraint is a subtype of var bool
LetBindings ==
  {b \in [decl : BOOLEAN, isvar : BOOLEAN, init : BOOLEAN, isbool : BOOLEAN] :
     IF b.decl THEN b.isbool ELSE b.init}

\* a plausible slip: the type is made var whatever the in expression is
LetTypeVarAlways(ty, isVar) == IF isVar THEN [ty EXCEPT !.ti = "TI_VAR"] ELSE ty

\* lines 2664-2668: the type of the let from the type ty of its in
\* expression, isVar saying that some binding is var
LetType(ty, isVar) ==
  IF isVar /\ ty.bt = "BT_BOOL" /\ ty.dim = 0 THEN [ty EXCEPT !.ti = "TI_VAR"] ELSE ty

\* Typer::vLet (lines 2616-2670) on `let { lets } in e`, e of type ty, as the
\* first thing the typer visits; cv: a binding or e is marked cv
VLet(lets, ty, cv) ==
  /\ pc = "typing" /\ nextItem = 1
  /\ LET K == 1..Len(lets)
         uninit == {k \in K : lets[k].decl /\ ~lets[k].isvar /\ ~lets[k].init}
         first == IF uninit = {} THEN Len(lets) + 1
                  ELSE CHOOSE k \in uninit : \A j \in uninit : k <= j
         nobool == SelectSeq([k \in 1..(first - 1) |-> k], LAMBDA k : ~lets[k].isbool)
         in == AddCoercionTo(ty, FALSE, ty, StdRegistry(ty))
     IN /\ typeErrors' = typeErrors \o
                           [j \in 1..Len(nobool) |->
                              [msg |-> "invalid type of constraint", k |-> nobool[j]]]
        /\ IF uninit # {}
             THEN /\ pc' = "thrown"
                  /\ err' = "let variable must be initialised"
                  /\ model' = [pass |-> "vLet", lets |-> lets, in |-> ty, typed |-> FALSE,
                               type |-> ty, cv |-> cv]
             ELSE /\ pc' = "let typed"
                  /\ err' = err
                  /\ model' = [pass |-> "vLet", lets |-> lets, in |-> ty, typed |-> TRUE,
                               type |-> LetType(in.ty, \E k \in K : lets[k].isvar),
                               cv |-> cv]
  /\ UNCHANGED <<scopes, lastOp, ignoreUnknownIds, pos, decls, stack, uses, nLocals, nIds,
                 enumE, shown, applied, coerced, nextItem>>

\* The generator variables of a comprehension, in the order they are declared
\* (declCount, line 1924).  A comprehension is genOf, the generator each
\* variable belongs to; assign, the generators of the form `i = expr`, whose
\* in is null and whose where is expr; and one where clause, at generator w
\* (0: none), with the conjuncts conj, each the generator variables its
\* identifiers name, in the order top_down meets them
CompVar == <<"i", "j", "k">>

\* where clauses have at most this many conjuncts
MaxConj == 2

\* the while loop of lines 2002-2006 from generator g: the first generator
\* from g on that is no assignment, or the last generator
SkipAssign(c, g) ==
  LET G == c.genOf[Len(c.genOf)]
      stop == {h \in g..G : h \notin c.assign \/ h = G}
  IN CHOOSE h \in stop : \A i \in stop : h <= i

\* FindLatestGen (lines 1986-2010) after top_down has met ids[1..k]: decl, and
\* declIndex counted from 1 (0: no generator variable met yet)
RECURSIVE FindLatestGen(_, _, _)
FindLatestGen(c, ids, k) ==
  IF k = 0 THEN [declIndex |-> 0, decl |-> 1]
  ELSE LET flg == FindLatestGen(c, ids, k - 1)
           v == ids[k]
           gen == SkipAssign(c, c.genOf[v])
       IN IF v > flg.declIndex
            THEN [declIndex |-> v + (gen - c.genOf[v]),
                  decl |-> IF gen = c.genOf[v] THEN v
                           ELSE CHOOSE d \in DOMAIN c.genOf :
                                  c.genOf[d] = gen /\ \A e \in DOMAIN c.genOf :
                                                        c.genOf[e] = gen => d <= e]
            ELSE flg

\* Typer::vComprehension, lines 1921-2055, on the comprehension c as the first
\* thing the typer visits: whereMap is filled generator by generator (lines
\* 1925-2018) and the generators are rebuilt from it (lines 2020-2055), a
\* generator ending at each variable that has where parts and at the last
\* variable of each original generator
VComprehension(c) ==
  /\ pc = "typing" /\ nextItem = 1
  /\ LET V == DOMAIN c.genOf
         G == c.genOf[Len(c.genOf)]
         first(g) == CHOOSE d \in V : c.genOf[d] = g /\ \A e \in V : c.genOf[e] = g => d <= e
         assigned(gs) ==
           [j \in 1..Len(gs) |-> [to |-> first(gs[j]), part |-> "expr", k |-> gs[j]]]
         gensIn(lo, hi) ==
           SelectSeq([g \in 1..G |-> g], LAMBDA g : lo <= g /\ g <= hi /\ g \in c.assign)
     IN \E pushes \in {assigned(gensIn(1, c.w - 1))
                          \o [k \in 1..Len(c.conj) |->
                                [to |-> FindLatestGen(c, c.conj[k], Len(c.conj[k])).decl,
                                 part |-> "conjunct", k |-> k]]
                          \o assigned(gensIn(c.w + 1, G))} :
          \E whereMap \in {[d \in V |-> SelectSeq(pushes, LAMBDA p : p.to = d)]} :
            \E ends \in {SelectSeq([d \in 1..Len(c.genOf) |-> d],
                                    LAMBDA d : whereMap[d] # <<>> \/ d = Len(c.genOf)
                                                 \/ c.genOf[d + 1] # c.genOf[d])} :
              LET begin(j) == IF j > 1 /\ c.genOf[ends[j - 1]] = c.genOf[ends[j]]
                                THEN ends[j - 1] + 1 ELSE first(c.genOf[ends[j]])
              IN model' = [pass |-> "vComprehension", c |-> c,
                           generators |->
                             [j \in 1..Len(ends) |->
                                [decls |-> [i \in 1..(ends[j] - begin(j) + 1) |->
                                              begin(j) + i - 1],
                                 gen |-> c.genOf[ends[j]],
                                 where |-> whereMap[ends[j]]]]]
  /\ pc' = "comprehension typed"
  /\ UNCHANGED <<scopes, lastOp, ignoreUnknownIds, pos, decls, stack, uses, nLocals, nIds,
                 enumE, shown, applied, coerced, nextItem, err, typeErrors>>

TyperInit ==
  /\ scopes = <<NewScope("ST_TOPLEVEL")>>
  /\ lastOp = NoOp
  /\ coerced = NoCall
  /\ enumE = NoEnum
  /\ shown = NoShow
  /\ applied = NoApply
  /\ model = NoModel
  /\ ignoreUnknownIds = FALSE
  /\ pos = [d \in DeclUids |-> NoPos]
  /\ decls = <<>>
  /\ stack = <<>>
  /\ uses = {}
  /\ pc = "typing"
  /\ nextItem = 1
  /\ err = "none"
  /\ typeErrors = <<>>
  /\ nLocals = 0
  /\ nIds = 0

TyperNext ==
  \/ /\ pc = "typing"
     /\ \E vet \in InitTypes, vdt \in DeclTypes, aa \in BOOLEAN : VVarDecl(vet, vdt, aa)
  \/ TSV2Done
  \/ /\ pc = "typing"
     /\ \E bo \in BinOps : VBinOp(bo)
  \/ /\ pc = "typing"
     /\ \E n \in 0..MaxLet, ty \in ExprTypes, cv \in BOOLEAN :
          \E lets \in [1..n -> LetBindings] : VLet(lets, ty, cv)
  \/ /\ pc = "typing"
     /\ \E n \in 1..Len(CompVar) :
          \E genOf \in {f \in [1..n -> 1..n] :
                          f[1] = 1 /\ \A d \in 2..n : f[d] \in {f[d - 1], f[d - 1] + 1}} :
            \E w \in 0..genOf[n], m \in 0..MaxConj :
              /\ w = 0 <=> m = 0
              /\ LET conjuncts ==
                       {ids \in UNION {[1..l -> {d \in 1..n : genOf[d] <= w}] : l \in 0..n} :
                          \A a, b \in DOMAIN ids : a # b => ids[a] # ids[b]}
                 IN \E conj \in [1..m -> conjuncts] :
                      \E assign \in SUBSET {g \in 1..n : Cardinality({d \in 1..n : genOf[d] = g}) = 1} :
                        /\ w \notin assign
                        /\ VComprehension([genOf |-> genOf, assign |-> assign, w |-> w,
                                           conj |-> conj])

TyperSpec == TyperInit /\ [][TyperNext]_vars

(***************************************************************************)
(* create_enum_mapper on `enum E = part ++ part ++ ...` (EnumSpec).        *)
(* A part is a set literal of n identifiers ("set"), anon_enum(n) ("anon") *)
(* or a constructor C(F) over an enum F of n values ("constr").  The       *)
(* entries of partCardinality are expressions that evaluate to integers;   *)
(* they are kept by value.  A string is its form, with the part and the    *)
(* number that fill it in: the i-th identifier of part p is spelled        *)
(* Str("id", p, i).  An opt int is whether it occurs and its value.  The   *)
(* argument of a constructor is the contiguous set min .. min + n - 1.     *)
(***************************************************************************)
Parts ==
  [kind : {"set"}, n : {0, 1, 2}, min : {1}]
    \cup [kind : {"anon"}, n : {1, 2}, min : {1}]
    \cup [kind : {"constr"}, n : {1, 2}, min : {0, 3}]

PartSeqs == UNION {[1..len -> Parts] : len \in 1..MaxParts}

\* partCardinality.back(), 0 standing for the null of an empty list
Back(card) == IF card = <<>> THEN 0 ELSE card[Len(card)]

\* the loop of lines 239-838 over parts 1..p: partCardinality after part p and,
\* for each part, the prevCardinality its functions were built with.  A set
\* literal pushes its entry when it meets its last identifier (line 264); the
\* other kinds push at lines 382-390 and 828-833
\* a plausible slip: the offset taken from min instead of min - 1
ConstructorArgMinOffByOne(prevCard, min) == prevCard - min

\* the value of _constrMin_p_E (lines 478-493)
ConstructorArgMin(prevCard, min) == prevCard - (min - 1)

\* a plausible slip: the position within the part, whatever precedes it
ToEnumArgNoOffset(prevCardinality, k) == k

\* the second argument of the to_enum call a member constant is initialised
\* with (lines 250-257), k being i + 1
ToEnumArg(prevCardinality, k) == prevCardinality + k

RECURSIVE Elaborate(_, _)
Elaborate(parts, p) ==
  IF p = 0 THEN [card |-> <<>>, prev |-> <<>>, cmin |-> <<>>, members |-> <<>>]
  ELSE LET before == Elaborate(parts, p - 1)
           total == Back(before.card) + parts[p].n
       IN [card |-> IF parts[p].kind = "set" /\ parts[p].n = 0
                      THEN before.card
                      ELSE Append(before.card, total),
           prev |-> Append(before.prev, Back(before.card)),
           cmin |-> Append(before.cmin,
                           IF parts[p].kind = "constr"
                             THEN ConstructorArgMin(Back(before.card), parts[p].min)
                             ELSE 0),
           members |-> Append(before.members,
                              IF parts[p].kind = "set"
                                THEN [k \in 1..parts[p].n |->
                                        ToEnumArg(Back(before.card), k)]
                                ELSE <<>>)]

\* what the read of partCardinality[i] at line 883 can yield when the list
\* has no entry i: the build stops there, or some value is read
Garbage == {"crash", "small", "large"}

GarbageValue(g) == IF g = "small" THEN 0 ELSE 2 * MaxParts + 1

Str(form, p, n) == [form |-> form, part |-> p, n |-> n]

Absent == [occurs |-> FALSE, v |-> 0]

\* a plausible slip: the DZN spelling whatever the JSON flag
AbsentStringDzn(json) == Str("<>", 0, 0)

\* the ITE built for an absent argument (lines 317-321, 367-370, 783-787,
\* 871-874)
AbsentString(json) == IF json THEN Str("null", 0, 0) ELSE Str("<>", 0, 0)

\* the value of the body of the function generated for part p of the
\* elaborated enum en, applied to (x, b, json)
ToStringPart(en, p, x, b, json) ==
  LET part == en.parts[p]
      i == x.v - en.prev[p]
  IN
  IF ~x.occurs THEN AbsentString(json)
  ELSE IF part.kind = "set"
    THEN IF i \notin 1..part.n THEN Str("error: array access out of bounds", p, i)
         ELSE IF b THEN Str("showDznId(id)", p, i)
         ELSE IF json THEN Str("{\"e\":id}", p, i)
         ELSE Str("id", p, i)
  ELSE IF part.kind = "anon"
    THEN IF ~b /\ json THEN Str("{\"e\":\"E\", \"i\":n}", p, en.prev[p] + x.v)
         ELSE Str("to_enum(E,n)", p, en.prev[p] + x.v)
  ELSE IF json THEN Str("{ \"c\" : \"C\", \"e\" : _toString_F(C^-1(n))}", p, x.v)
  ELSE Str("C(_toString_F(C^-1(n)))", p, x.v)

\* the chain of cases built at lines 878-891, from case i on: the part whose
\* function is called for x
RECURSIVE DispatchFrom(_, _, _)
DispatchFrom(en, i, x) ==
  IF i >= Len(en.parts) THEN Len(en.parts)
  ELSE IF x <= (IF i <= Len(en.partCardinality) THEN en.partCardinality[i]
                ELSE GarbageValue(en.garbage))
    THEN i
  ELSE DispatchFrom(en, i + 1, x)

\* the value of _toString_E(x, b, json): the function of the only part, or
\* the dispatching function of lines 851-903
ToStringE(en, x, b, json) ==
  IF Len(en.parts) = 1 THEN ToStringPart(en, 1, x, b, json)
  ELSE IF ~x.occurs THEN AbsentString(json)
  ELSE ToStringPart(en, DispatchFrom(en, 1, x.v), x, b, json)

\* create_enum_mapper on the declaration
CreateEnumMapper(g) ==
  LET built == Elaborate(enumE.parts, Len(enumE.parts))
      \* line 883 reads partCardinality[i] for every part but the last
      outOfBounds == Len(built.card) < Len(enumE.parts) - 1
  IN
  /\ pc = "enum"
  /\ IF outOfBounds /\ g = "crash"
       THEN pc' = "crashed" /\ enumE' = enumE
       ELSE /\ pc' = "elaborated"
            /\ enumE' = [enumE EXCEPT !.partCardinality = built.card, !.prev = built.prev,
                                      !.garbage = IF outOfBounds THEN g ELSE "none",
                                      !.constructorArgMin = built.cmin,
                                      !.members = built.members,
                                      !.upperBound = Back(built.card)]
  /\ UNCHANGED <<notEnum, shown, applied>>

\* the values of opt E: absent and the right-hand side 1..upperBound of lines
\* 840-849
EnumValues(en) ==
  {Absent} \cup {[occurs |-> TRUE, v |-> k] : k \in 1..Back(en.partCardinality)}

\* the generated _toString_E is evaluated
EvalToString(x, b, json) ==
  /\ pc = "elaborated"
  /\ shown' = [x |-> x, b |-> b, json |-> json, r |-> ToStringE(enumE, x, b, json)]
  /\ pc' = "evaluated"
  /\ UNCHANGED <<notEnum, enumE, applied>>

\* the argument set E of the constructor part p
ConstructorArg(en, p) == en.parts[p].min .. (en.parts[p].min + en.parts[p].n - 1)

\* the body of the generated function C of part p (lines 505-520)
Cfn(en, p, x) == en.constructorArgMin[p] + x

\* the body of the generated function C^-1 of part p (lines 633-648)
Cinv(en, p, x) == x - en.constructorArgMin[p]

\* the generated constructor C of part p is evaluated on a member of E
EvalC(p, e) ==
  /\ pc = "elaborated"
  /\ enumE.parts[p].kind = "constr"
  /\ e \in ConstructorArg(enumE, p)
  /\ applied' = [fn |-> "C", part |-> p, x |-> e, r |-> Cfn(enumE, p, e)]
  /\ pc' = "evaluated"
  /\ UNCHANGED <<notEnum, enumE, shown>>

\* the generated inverse C^-1 of part p is evaluated on a value of the enum
EvalCinv(p, x) ==
  /\ pc = "elaborated"
  /\ enumE.parts[p].kind = "constr"
  /\ x \in 1..enumE.upperBound
  /\ applied' = [fn |-> "Cinv", part |-> p, x |-> x, r |-> Cinv(enumE, p, x)]
  /\ pc' = "evaluated"
  /\ UNCHANGED <<notEnum, enumE, shown>>

EnumInit ==
  /\ scopes = <<NewScope("ST_TOPLEVEL")>>
  /\ lastOp = NoOp
  /\ coerced = NoCall
  /\ enumE \in {[NoEnum EXCEPT !.parts = parts] : parts \in PartSeqs}
  /\ shown = NoShow
  /\ applied = NoApply
  /\ model = NoModel
  /\ ignoreUnknownIds = FALSE
  /\ pos = [d \in DeclUids |-> NoPos]
  /\ decls = <<>>
  /\ stack = <<>>
  /\ uses = {}
  /\ pc = "enum"
  /\ nextItem = 1
  /\ err = "none"
  /\ typeErrors = <<>>
  /\ nLocals = 0
  /\ nIds = 0

EnumNext ==
  \/ \E g \in Garbage : CreateEnumMapper(g)
  \/ \E x \in EnumValues(enumE), b \in BOOLEAN, json \in BOOLEAN :
       EvalToString(x, b, json)
  \/ \E p \in 1..Len(enumE.parts), e \in -1..(2 * MaxParts + 3) : EvalC(p, e)
  \/ \E p \in 1..Len(enumE.parts), x \in 1..(2 * MaxParts) : EvalCinv(p, x)

EnumSpec == EnumInit /\ [][EnumNext]_vars

(***************************************************************************)
(* The passes of typecheck over ts.decls after the topological sort        *)
(* (FinalSpec): Typer<false> on every declaration (lines 3251-3260), then  *)
(* the loop that closes typecheck (lines 3799-3817).  A declaration is its *)
(* type, the type of its type-inst, whether it is toplevel, whether its    *)
(* type-inst is an enum, its initialiser e ("none": nullptr) and its       *)
(* annotations.  A Type here also has its enumId.                          *)
(***************************************************************************)
\* everything but the model and the error list
notModel == <<scopes, lastOp, ignoreUnknownIds, pos, decls, stack, uses, pc, nextItem, err,
              nLocals, nIds, coerced, enumE, shown, applied>>

\* the enum id TopoSorter::add registers for the enum declaration (line 1178)
EnumId == 1

\* the types of the type-insts: int (par or var, opt or not, scalar or array),
\* ann, and the set type TopoSorter::add gives an enum declaration (lines
\* 1177-1182)
TiTypes ==
  [bt : {"BT_INT"}, dim : Dims, ti : {"TI_PAR", "TI_VAR"}, ot : {"OT_PRESENT", "OT_OPTIONAL"},
   st : {"ST_PLAIN"}, enumId : {0}]
    \cup [bt : {"BT_ANN"}, dim : {0}, ti : {"TI_PAR"}, ot : {"OT_PRESENT"},
          st : {"ST_PLAIN"}, enumId : {0}]
    \cup [bt : {"BT_INT"}, dim : {0}, ti : {"TI_PAR"}, ot : {"OT_PRESENT"},
          st : {"ST_SET"}, enumId : {EnumId}]

\* a declaration of ts.decls as the typer finds it: an enum declaration has
\* its type already (line 1181), the type of any other one is still to be set
SortedDecl(tl, t, e) ==
  [toplevel |-> tl, isEnum |-> t.enumId # 0, tiType |-> t,
   type |-> IF t.enumId # 0 THEN t ELSE [t EXCEPT !.bt = "BT_UNKNOWN"],
   e |-> e, ann |-> {}]

\* the declarations ts.decls can hold: toplevel ones of every type and
\* declarations made inside lets, scalar ints here
SortedDecls ==
  {SortedDecl(TRUE, t, e) : t \in TiTypes, e \in {"none", "expr"}}
    \cup {SortedDecl(FALSE, t, e) :
            t \in {u \in TiTypes : u.bt = "BT_INT" /\ u.dim = 0 /\ u.st = "ST_PLAIN"
                                     /\ u.ot = "OT_PRESENT"},
            e \in {"none", "expr"}}

\* Typer::vVarDecl on the declaration (line 2673); the declarations of lets
\* are visited when the expression that holds the let is
TyperVarDecl ==
  /\ model.pass = "typer" /\ model.i <= Len(model.decls)
  /\ model' = [model EXCEPT !.decls[model.i].type = model.decls[model.i].tiType,
                            !.i = model.i + 1]
  /\ UNCHANGED <<notModel, typeErrors>>

\* the loop of lines 3254-3260 has run
TyperDone ==
  /\ model.pass = "typer" /\ model.i > Len(model.decls)
  /\ model' = [model EXCEPT !.pass = "final", !.i = 1]
  /\ UNCHANGED <<notModel, typeErrors>>

\* a plausible slip: the error is recorded whatever the caller asked for
MustBeDefinedAlways(ignoreUndefinedParameters) == TRUE

\* the test of line 3804
MustBeDefined(ignoreUndefinedParameters) == ~ignoreUndefinedParameters

\* one turn of the loop of lines 3799-3817
FinalDecl ==
  /\ model.pass = "final" /\ model.i <= Len(model.decls)
  /\ LET decl == model.decls[model.i]
         undefinedPar == /\ decl.toplevel /\ decl.type.ti = "TI_PAR"
                         /\ decl.type.bt # "BT_ANN" /\ decl.e = "none"
         optScalar == decl.type.ot = "OT_OPTIONAL" /\ decl.type.dim = 0
         defaulted == IF undefinedPar /\ optScalar
                        THEN [decl EXCEPT !.e = "absent",
                                          !.ann = decl.ann \cup {"mzn_was_undefined"}]
                        ELSE decl
         demoted == IF defaulted.isEnum
                      THEN [defaulted EXCEPT !.isEnum = FALSE, !.tiType.enumId = 0]
                      ELSE defaulted
     IN
     /\ typeErrors' =
          IF undefinedPar /\ ~optScalar /\ MustBeDefined(model.ignoreUndefinedParameters)
            THEN Append(typeErrors, [msg |-> "must be defined", decl |-> model.i])
            ELSE typeErrors
     /\ model' = [model EXCEPT !.decls[model.i] = demoted, !.i = model.i + 1]
  /\ UNCHANGED notModel

\* the loop of lines 3799-3817 has run
FinalDone ==
  /\ model.pass = "final" /\ model.i > Len(model.decls)
  /\ model' = [model EXCEPT !.pass = "returned"]
  /\ UNCHANGED <<notModel, typeErrors>>

\* the names of the declarations of ts.decls
SortedName == <<"a", "b">>

FinalInit ==
  /\ scopes = <<NewScope("ST_TOPLEVEL")>>
  /\ lastOp = NoOp
  /\ coerced = NoCall
  /\ enumE = NoEnum
  /\ shown = NoShow
  /\ applied = NoApply
  /\ TopoIdle
  /\ \E ds \in [1..Len(SortedName) -> SortedDecls], iup \in BOOLEAN :
       model = [pass |-> "typer", i |-> 1, decls |-> ds, given |-> ds,
                ignoreUndefinedParameters |-> iup]

FinalNext ==
  \/ TyperVarDecl
  \/ TyperDone
  \/ FinalDecl
  \/ FinalDone

FinalSpec == FinalInit /\ [][FinalNext]_vars

(***************************************************************************)
(* The passes of the driver over the items of the model (DriverSpec): the  *)
(* folding of the assignment items (lines 3111-3142), the visit of the     *)
(* output items (TSV4, lines 3538-3557) and the cross-check of the checker *)
(* variables (lines 3819-3867).  model.pass says which pass the model is   *)
(* in; each pass is modelled on its own input.                             *)
(***************************************************************************)
\* assignment items the model holds at most
MaxAssign == 3

\* the right-hand sides of the assignment items, in item order
RhsName == <<"r1", "r2", "r3", "r4">>

\* the models handed to the folding loop: the toplevel declarations x (which
\* may be an enum) and y, each with or without initialiser, and the items
\* `id = RhsName[k]` of assignItems; u is declared nowhere
AssignModels ==
  {[pass |-> "assign", i |-> 1, allowMultiAssignment |-> am,
    decls |-> [x |-> [e |-> ex, isEnum |-> en, ann |-> {}],
               y |-> [e |-> ey, isEnum |-> FALSE, ann |-> {}]],
    items |-> [k \in 1..Len(ids) |-> [id |-> ids[k], e |-> RhsName[k], removed |-> FALSE]],
    constraints |-> <<>>] :
     am \in BOOLEAN, ex \in {"none", "init"}, en \in BOOLEAN, ey \in {"none", "init"},
     ids \in UNION {[1..n -> {"x", "y", "u"}] : n \in 1..MaxAssign}}

\* a plausible slip: the initialiser is not looked at
HasInitialiserNever(vd) == FALSE

\* the test of line 3122
HasInitialiser(vd) == vd.e # "none"

\* one turn of the loop of lines 3111-3142; valid: create_enum_mapper accepts
\* the right-hand side as the initialisation of an enum (it throws otherwise)
FoldAssign(valid) ==
  /\ model.pass = "assign" /\ model.i <= Len(model.items)
  /\ LET ai == model.items[model.i]
         removed == [model EXCEPT !.items[model.i].removed = TRUE, !.i = model.i + 1]
     IN
     IF ai.id \notin DOMAIN model.decls
       THEN \* ts.get throws (line 1200); caught only at line 3116
            IF ignoreUnknownIds
              THEN model' = removed /\ UNCHANGED <<typeErrors, err>>
              ELSE /\ model' = [model EXCEPT !.pass = "thrown"]
                   /\ err' = "undefined identifier"
                   /\ UNCHANGED typeErrors
     ELSE IF HasInitialiser(model.decls[ai.id])
       THEN IF model.allowMultiAssignment
              THEN /\ model' = [removed EXCEPT
                                  !.constraints = Append(model.constraints,
                                                         [lhs |-> ai.id, rhs |-> ai.e])]
                   /\ UNCHANGED <<typeErrors, err>>
              ELSE /\ model' = removed
                   /\ typeErrors' =
                        Append(typeErrors, "multiple assignment to the same variable")
                   /\ UNCHANGED err
     ELSE LET assigned == [model.decls[ai.id] EXCEPT
                             !.e = ai.e, !.ann = @ \cup {"rhs_from_assignment"}]
          IN IF assigned.isEnum /\ ~valid
               THEN /\ model' = [model EXCEPT !.decls[ai.id] = assigned, !.pass = "thrown"]
                    /\ err' = "invalid initialisation for enum"
                    /\ UNCHANGED typeErrors
               ELSE /\ model' = [removed EXCEPT !.decls[ai.id] = assigned]
                    /\ UNCHANGED <<typeErrors, err>>
  /\ UNCHANGED <<scopes, lastOp, ignoreUnknownIds, pos, decls, stack, uses, pc, nextItem,
                 nLocals, nIds, coerced, enumE, shown, applied>>

\* variables a checker model requires at most
MaxCheckVars == 2

\* the types of the checker variables and of the model's declaration: scalar
\* bool and int, par and var
CheckTypes ==
  {t \in Types : t.bt \in {"BT_BOOL", "BT_INT"} /\ t.dim = 0 /\ t.ot = "OT_PRESENT"
                   /\ t.st = "ST_PLAIN"}

\* the models handed to the cross-check: env.checkVars, the declarations vd_k
\* of the checker model, and the model's toplevel declaration x of type
\* type, an enum type when enumId is not 0; u is declared nowhere
CheckerModels ==
  {[pass |-> "checker", i |-> 1, checkVars |-> cv,
    decls |-> [x |-> [type |-> t, enumId |-> en, ann |-> {}]]] :
     t \in CheckTypes, en \in {0, EnumId},
     cv \in UNION {[1..n -> [id : {"x", "u"}, type : CheckTypes]] : n \in 1..MaxCheckVars}}

\* a plausible slip: the model's type is tested against the checker's
ModelFitsChecker(vd_k, vd) == IsSubtype(vd.type, vd_k.type)

\* the test of line 3857: the type the checker declares is a subtype of the
\* type of the model's declaration
CheckerFitsModel(vd_k, vd) == IsSubtype(vd_k.type, vd.type)

\* one turn of the loop of lines 3819-3867
CheckVar ==
  /\ model.pass = "checker" /\ model.i <= Len(model.checkVars)
  /\ LET vd_k == model.checkVars[model.i]
         next == [model EXCEPT !.i = model.i + 1]
     IN
     IF vd_k.id \notin DOMAIN model.decls
       THEN \* ts.get throws: a var may be undefined (line 3827)
            /\ model' = next
            /\ typeErrors' =
                 IF vd_k.type.ti = "TI_VAR" THEN typeErrors
                 ELSE Append(typeErrors,
                             [msg |-> "undefined identifier (required by solution checker model)",
                              k |-> model.i])
       ELSE LET vd == model.decls[vd_k.id] IN
            /\ model' = [next EXCEPT
                           !.decls[vd_k.id].ann =
                              @ \cup {"mzn_check_var"}
                                \cup (IF vd.enumId # 0 THEN {"mzn_check_enum_var"} ELSE {})]
            /\ typeErrors' =
                 IF CheckerFitsModel(vd_k, vd) THEN typeErrors
                 ELSE Append(typeErrors,
                             [msg |-> "Solution checker requires to be of type",
                              k |-> model.i])
  /\ UNCHANGED notModel

\* output items the model holds at most
MaxOutput == 2

\* the models that reach TSV4: output items `output e :: mzn_output_section(s)`
\* (section "none": no such annotation) whose expressions are RhsName[k], for
\* a FlatZinc model or not; env.outputSections is the list of the
\* (section, expression) pairs added to it
OutputModels ==
  {[pass |-> "output", i |-> 1, isFlatZinc |-> fzn,
    items |-> [k \in 1..Len(secs) |-> [section |-> secs[k], e |-> RhsName[k],
                                       removed |-> FALSE]],
    outputSections |-> <<>>] :
     fzn \in BOOLEAN, secs \in UNION {[1..n -> {"none", "a", "b"}] : n \in 1..MaxOutput}}

\* a plausible slip: the items are visited whatever the error list holds
Tsv4RunsAnyway(isFlatZinc, te) == ~isFlatZinc

\* TSV4 runs inside `if (!isFlatZinc)` (line 3523) and only when there is no
\* error so far (line 3555)
Tsv4Runs(isFlatZinc, te) == ~isFlatZinc /\ te = <<>>

\* TSV4::vOutputI on the next output item (lines 3544-3553)
VOutputI ==
  /\ model.pass = "output" /\ Tsv4Runs(model.isFlatZinc, typeErrors)
  /\ model.i <= Len(model.items)
  /\ LET oi == model.items[model.i] IN
     model' = [model EXCEPT
                 !.outputSections =
                    Append(@, [section |-> IF oi.section = "none" THEN "default"
                                           ELSE oi.section,
                               e |-> oi.e]),
                 !.items[model.i].removed = TRUE,
                 !.i = model.i + 1]
  /\ UNCHANGED <<notModel, typeErrors>>

\* typecheck goes on after line 3557: iter_items(_tsv4, m) has run or was
\* skipped
Tsv4Done ==
  /\ model.pass = "output"
  /\ ~Tsv4Runs(model.isFlatZinc, typeErrors) \/ model.i > Len(model.items)
  /\ model' = [model EXCEPT !.pass = "output done"]
  /\ UNCHANGED <<notModel, typeErrors>>

\* the model reaches a pass of the driver, with or without an error recorded
\* by the passes before it
DriverInit ==
  /\ scopes = <<NewScope("ST_TOPLEVEL")>>
  /\ lastOp = NoOp
  /\ coerced = NoCall
  /\ enumE = NoEnum
  /\ shown = NoShow
  /\ applied = NoApply
  /\ ignoreUnknownIds \in BOOLEAN
  /\ pos = [d \in DeclUids |-> NoPos]
  /\ decls = <<>>
  /\ stack = <<>>
  /\ uses = {}
  /\ pc = "idle"
  /\ nextItem = 1
  /\ err = "none"
  /\ typeErrors \in {<<>>, <<[msg |-> "earlier error", k |-> 0]>>}
  /\ nLocals = 0
  /\ nIds = 0
  /\ model \in AssignModels \cup CheckerModels \cup OutputModels

DriverNext ==
  \/ \E valid \in BOOLEAN : FoldAssign(valid)
  \/ CheckVar
  \/ VOutputI
  \/ Tsv4Done

DriverSpec == DriverInit /\ [][DriverNext]_vars

(***************************************************************************)
(* The pruning of fnsToMakePar (ParSpec): the functions that were found    *)
(* par-specialisable, each with the functions its body depends on, and the *)
(* loop that removes those with a dependency outside the map.              *)
(***************************************************************************)
\* the functions of the model that have a body; "lib" is a function that is
\* never in the map
FnName == {"f", "g", "h"}

\* a plausible slip: a function that depends on itself is removed as well
ToRemoveSelf(fns, deps) == {f \in fns : \E dep \in deps[f] : dep \notin fns \/ dep = f}

\* toRemove as lines 3676-3682 fill it: the functions of the map with a
\* dependency that is not in the map
ToRemove(fns, deps) == {f \in fns : \E dep \in deps[f] : dep \notin fns}

\* one round of the do-while loop of lines 3674-3690
PruneRound ==
  /\ pc = "pruning"
  /\ LET toRemove == ToRemove(model.fns, model.deps) IN
       /\ model' = [model EXCEPT !.fns = @ \ toRemove, !.rounds = @ + 1]
       /\ pc' = IF toRemove # {} THEN "pruning" ELSE "pruned"
  /\ UNCHANGED <<scopes, lastOp, ignoreUnknownIds, pos, decls, stack, uses, nextItem, err,
                 typeErrors, nLocals, nIds, coerced, enumE, shown, applied>>

\* fnsToMakePar as the loop of lines 3562-3670 leaves it: any set of
\* functions, the dependencies of each being any functions of the model
ParInit ==
  /\ scopes = <<NewScope("ST_TOPLEVEL")>>
  /\ lastOp = NoOp
  /\ coerced = NoCall
  /\ enumE = NoEnum
  /\ shown = NoShow
  /\ applied = NoApply
  /\ ignoreUnknownIds = FALSE
  /\ pos = [d \in DeclUids |-> NoPos]
  /\ decls = <<>>
  /\ stack = <<>>
  /\ uses = {}
  /\ pc = "pruning"
  /\ nextItem = 1
  /\ err = "none"
  /\ typeErrors = <<>>
  /\ nLocals = 0
  /\ nIds = 0
  /\ \E fns \in SUBSET FnName : \E deps \in [fns -> SUBSET (FnName \cup {"lib"})] :
       model = [pass |-> "prune", fns |-> fns, deps |-> deps, initial |-> fns, rounds |-> 0]

ParNext == PruneRound

\* the loop is run to its end
ParSpec == ParInit /\ [][ParNext]_vars /\ WF_vars(ParNext)

(***************************************************************************)
(* The walk of the annotations of an expression e at the end of            *)
(* TopoSorter::run (AnnSpec).  The annotations of e are numbered in the    *)
(* order the iteration meets them; fails[k] says that run on annotation k  *)
(* throws a TypeError.                                                     *)
(***************************************************************************)
\* annotations an expression has at most
MaxAnn == 3

\* ++it at line 1379, on the iterator at annotation k of the annotations
\* present: the next one that is present, 0 at the end.  When annotation k has
\* just been removed from the set the iterator is invalid and incrementing it
\* is undefined: a build goes on with the next annotation, takes the
\* iteration for finished, or crashes (-1)
Incremented(present, k) ==
  LET later == {j \in present : j > k}
      next == IF later = {} THEN 0 ELSE CHOOSE j \in later : \A i \in later : j <= i
  IN IF k \in present THEN {next} ELSE {next, 0, -1}

\* one round of the loop of lines 1379-1388, or of the loop of lines 1390-1392
\* when env.ignoreUnknownIds is not set: run on the annotation the iterator
\* is at, the removal of what toDelete holds, and the increment
RunAnn(it) ==
  /\ pc = "annotations" /\ model.it > 0
  /\ LET k == model.it
         caught == ignoreUnknownIds /\ model.fails[k]
         toDelete == IF caught THEN model.toDelete \cup {k} ELSE model.toDelete
         present == IF ignoreUnknownIds THEN model.present \ toDelete ELSE model.present
     IN IF model.fails[k] /\ ~ignoreUnknownIds
          THEN /\ pc' = "thrown"
               /\ err' = "type error in annotation"
               /\ model' = [model EXCEPT !.walked[k] = @ + 1]
          ELSE /\ it \in Incremented(present, k)
               /\ pc' = IF it > 0 THEN "annotations" ELSE IF it = 0 THEN "returned" ELSE "crashed"
               /\ err' = err
               /\ model' = [model EXCEPT !.walked[k] = @ + 1, !.toDelete = toDelete,
                                         !.present = present, !.it = it]
  /\ UNCHANGED <<scopes, lastOp, ignoreUnknownIds, pos, decls, stack, uses, nextItem,
                 typeErrors, nLocals, nIds, coerced, enumE, shown, applied>>

\* run has walked e itself and reaches line 1377; e has at least one
\* annotation
AnnInit ==
  /\ scopes = <<NewScope("ST_TOPLEVEL")>>
  /\ lastOp = NoOp
  /\ coerced = NoCall
  /\ enumE = NoEnum
  /\ shown = NoShow
  /\ applied = NoApply
  /\ ignoreUnknownIds \in BOOLEAN
  /\ pos = [d \in DeclUids |-> NoPos]
  /\ decls = <<>>
  /\ stack = <<>>
  /\ uses = {}
  /\ pc = "annotations"
  /\ nextItem = 1
  /\ err = "none"
  /\ typeErrors = <<>>
  /\ nLocals = 0
  /\ nIds = 0
  /\ \E n \in 1..MaxAnn : \E fails \in [1..n -> BOOLEAN] :
       model = [pass |-> "annotations", fails |-> fails, present |-> 1..n, it |-> 1,
                walked |-> [k \in 1..n |-> 0], toDelete |-> {}]

AnnSpec == AnnInit /\ [][\E it \in -1..MaxAnn : RunAnn(it)]_vars

(***************************************************************************)
(* The driver of lib/solver.cpp (SolverSpec): the storage of a             *)
(* SolverFactory under calls of createSI and destroySI, and one run of     *)
(* main.  Solver instances are numbered in the order doCreateSI makes      *)
(* them; 0 is the null pointer.                                            *)
(***************************************************************************)
\* solver instances a factory makes at most
MaxSI == 3

\* SolverFactory::createSI (lines 126-136), doCreateSI returning pSI
CreateSI(pSI) ==
  /\ model.pass = "factory"
  /\ pSI = 0 \/ (pSI = model.made + 1 /\ pSI <= MaxSI)
  /\ model' = IF pSI = 0
                THEN [model EXCEPT !.last = [op |-> "createSI", pSI |-> pSI, threw |-> TRUE,
                                             before |-> model.sistorage]]
                ELSE [model EXCEPT !.sistorage = Append(@, pSI), !.made = pSI,
                                   !.last = [op |-> "createSI", pSI |-> pSI, threw |-> FALSE,
                                             before |-> model.sistorage]]
  /\ UNCHANGED <<notModel, typeErrors>>

\* a plausible slip: the search result is not tested and an instance that
\* is not found takes the last entry with it
DestroySIUnchecked(pSI) ==
  /\ model.pass = "factory"
  /\ LET found == {i \in DOMAIN model.sistorage : model.sistorage[i] = pSI}
         it == IF found = {} THEN Len(model.sistorage)
               ELSE CHOOSE i \in found : \A j \in found : i <= j
     IN model' = [model EXCEPT
                    !.sistorage = SubSeq(@, 1, it - 1) \o SubSeq(@, it + 1, Len(@)),
                    !.gone = IF it = 0 THEN @ ELSE @ \cup {model.sistorage[it]},
                    !.last = [op |-> "destroySI", pSI |-> pSI, threw |-> FALSE,
                              before |-> model.sistorage]]
  /\ UNCHANGED <<notModel, typeErrors>>

\* SolverFactory::destroySI (lines 139-150); erasing the entry deletes the
\* instance it owns
DestroySI(pSI) ==
  /\ model.pass = "factory"
  /\ LET found == {i \in DOMAIN model.sistorage : model.sistorage[i] = pSI}
         it == IF found = {} THEN 0 ELSE CHOOSE i \in found : \A j \in found : i <= j
     IN model' = IF it = 0
                   THEN [model EXCEPT !.last = [op |-> "destroySI", pSI |-> pSI,
                                                threw |-> TRUE, before |-> model.sistorage]]
                   ELSE [model EXCEPT
                           !.sistorage = SubSeq(@, 1, it - 1) \o SubSeq(@, it + 1, Len(@)),
                           !.gone = @ \cup {pSI},
                           !.last = [op |-> "destroySI", pSI |-> pSI, threw |-> FALSE,
                                     before |-> model.sistorage]]
  /\ UNCHANGED <<notModel, typeErrors>>

\* main up to the end of slv.processOptions (lines 41-48): r is "ok", "false"
\* (an unrecognised option or no argument: help is printed and the process
\* exits with EXIT_FAILURE), "exit" (--help or --version: std::exit with
\* EXIT_SUCCESS inside processOptions) or "throws"
ProcessOptions(r) ==
  /\ model.pass = "main" /\ model.at = "processOptions"
  /\ model' = CASE r = "ok" -> [model EXCEPT !.at = "flatten"]
                [] r = "false" -> [model EXCEPT !.at = "exited", !.status = 1]
                [] r = "exit" -> [model EXCEPT !.at = "exited", !.status = 0]
                [] OTHER -> [model EXCEPT !.at = "return", !.caught = TRUE,
                                          !.out = Append(@, "=====ERROR=====")]
  /\ UNCHANGED <<notModel, typeErrors>>

\* slv.flatten() and the branches on the flattener's status (lines 49-67);
\* r is "throws" or the status flattening ends with
Flatten(r) ==
  /\ model.pass = "main" /\ model.at = "flatten"
  /\ model' = CASE r = "throws" -> [model EXCEPT !.at = "return", !.caught = TRUE,
                                                 !.out = Append(@, "=====ERROR=====")]
                [] r = "UNKNOWN" -> [model EXCEPT !.fSuccess = TRUE, !.flt = r,
                                                  !.at = IF model.nSolvers > 0 THEN "solve"
                                                         ELSE "return"]
                [] r = "UNSAT" -> [model EXCEPT !.fSuccess = TRUE, !.flt = r, !.at = "return",
                                                !.out = Append(@, "=====UNSATISFIABLE=====")]
                [] r = "ERROR" -> [model EXCEPT !.flt = r, !.at = "return",
                                                !.out = Append(@, "=====ERROR=====")]
                [] OTHER -> [model EXCEPT !.fSuccess = TRUE, !.flt = r, !.at = "return",
                                          !.out = Append(@, "  Flattening produced status")]
  /\ UNCHANGED <<notModel, typeErrors>>

\* slv.addSolverInterface() and slv.solve() (lines 54-58, 170-180, 265-289);
\* r is "throws" (createSI, processFlatZinc or solve threw) or the status the
\* solver returns
Solve(r) ==
  /\ model.pass = "main" /\ model.at = "solve"
  /\ model' = CASE r = "throws" -> [model EXCEPT !.at = "return", !.caught = TRUE,
                                                 !.out = Append(@, "=====ERROR=====")]
                [] r = "SAT" -> [model EXCEPT !.at = "return", !.si = r,
                                              !.out = Append(@, "solution")]
                [] r = "OPT" -> [model EXCEPT !.at = "return", !.si = r,
                                              !.out = @ \o <<"solution", "==========">>]
                [] OTHER -> [model EXCEPT !.at = "return", !.si = r,
                                          !.out = Append(@, "=====" \o r \o "=====")]
  /\ UNCHANGED <<notModel, typeErrors>>

\* return !fSuccess (line 102)
Return ==
  /\ model.pass = "main" /\ model.at = "return"
  /\ model' = [model EXCEPT !.at = "exited", !.status = IF model.fSuccess THEN 0 ELSE 1]
  /\ UNCHANGED <<notModel, typeErrors>>

\* a factory with an empty storage, or main entered with or without a solver
\* factory registered
SolverInit ==
  /\ scopes = <<NewScope("ST_TOPLEVEL")>>
  /\ lastOp = NoOp
  /\ coerced = NoCall
  /\ enumE = NoEnum
  /\ shown = NoShow
  /\ applied = NoApply
  /\ ignoreUnknownIds = FALSE
  /\ pos = [d \in DeclUids |-> NoPos]
  /\ decls = <<>>
  /\ stack = <<>>
  /\ uses = {}
  /\ pc = "idle"
  /\ nextItem = 1
  /\ err = "none"
  /\ typeErrors = <<>>
  /\ nLocals = 0
  /\ nIds = 0
  /\ \/ model = [pass |-> "factory", sistorage |-> <<>>, made |-> 0, gone |-> {},
                 last |-> [op |-> "none", pSI |-> 0, threw |-> FALSE, before |-> <<>>]]
     \/ \E n \in {0, 1} :
          model = [pass |-> "main", at |-> "processOptions", nSolvers |-> n,
                   fSuccess |-> FALSE, caught |-> FALSE, flt |-> "none", si |-> "none",
                   out |-> <<>>, status |-> -1]

SolverNext ==
  \/ \E pSI \in 0..MaxSI : CreateSI(pSI)
  \/ \E pSI \in 0..MaxSI : DestroySI(pSI)
  \/ \E r \in {"ok", "false", "exit", "throws"} : ProcessOptions(r)
  \/ \E r \in {"throws", "UNKNOWN", "UNSAT", "ERROR", "SAT"} : Flatten(r)
  \/ \E r \in {"throws", "SAT", "OPT", "UNSAT", "UNBOUNDED", "UNSATorUNBOUNDED", "UNKNOWN",
               "ERROR", "UNKNOWN_STATUS"} : Solve(r)
  \/ Return

SolverSpec == SolverInit /\ [][SolverNext]_vars

(***************************************************************************)
(* Claims about the topological sorter (Spec).                             *)
(***************************************************************************)
\* the declaration checkId finds for the name nm
Lookup(nm) == ScopesFind(scopes, Name(nm)).decl

\* this step is checkId on an Id named nm with no visible declaration
IsUndefinedLookup(nm) == RunId(nm) /\ Lookup(nm) = NoDecl

\* this step is checkId on an Id named nm whose declaration has position -1
IsCircularLookup(nm) == RunId(nm) /\ Lookup(nm) # NoDecl /\ pos[Lookup(nm).uid] = -1

\* the step leaves typecheck with the TypeError msg; the error list is untouched
ThrownOut(msg) == pc' = "thrown" /\ err' = msg /\ typeErrors' = typeErrors

\* the step ends in the catch block of line 1383: the walk goes on below the
\* annotation, nothing is recorded
CaughtAtAnnotation ==
  /\ pc' = pc /\ err' = err /\ typeErrors' = typeErrors
  /\ stack' = SubSeq(stack, 1, CatchIndex(stack) - 1)

\* C1 (as stated): after the topological sorter completes without error, for
\* every toplevel declaration u whose type-inst or initialiser contains an
\* identifier bound to a toplevel declaration d, pos[d] < pos[u].
C1_Original ==
  (pc = "done" /\ err = "none") =>
    \A p \in uses : (p[1] \in TopUids /\ p[2] \in TopUids) => pos[p[2]] < pos[p[1]]

C26_Original ==
  (pc \in {"tsv1", "done"} /\ stack = <<>>) => Len(scopes) = 1

\* the declarations whose call of run is in progress
InProgress == {stack[i].d : i \in {j \in 1..Len(stack) : stack[j].k = "vd"}}

\* C27: at every point of the toposort the declarations with a non-negative
\* position are exactly the entries of decls, pos[decls[i]] = i for every
\* index i, and the declarations with position -1 are exactly those whose
\* visit is in progress, so that none is left when the walk has returned.
\* The code breaks it: a declaration abandoned by a TypeError that line 1383
\* catches keeps position -1.
C27_Original ==
  pc \in {"tsv1", "done"} =>
    /\ \A d \in DeclUids : (pos[d] # NoPos /\ pos[d] >= 0) <=> (\E i \in 1..Len(decls) : decls[i] = d)
    /\ \A i \in 1..Len(decls) : pos[decls[i]] = i - 1
    /\ \A d \in DeclUids : pos[d] = -1 <=> d \in InProgress
    /\ pc = "done" => \A d \in DeclUids : pos[d] # -1

\* the place of the item of top-level declaration d in the sorted model
ItemIndex(d) ==
  CHOOSE k \in 1..Len(model.items) :
    model.items[k].kind = "VarDeclI" /\ model.items[k].d = d

\* the items that are no declaration items, in the order the sequence has them
OtherItems(items) == SelectSeq(items, LAMBDA it : it.kind # "VarDeclI")

\* C19: after the toposort phase the declaration items come before every other
\* item, in ascending toposort position, so that each declaration item comes
\* after the declaration items its initialiser uses, and the other items keep
\* their relative order.  The code breaks it: a declaration abandoned by an
\* error caught in an annotation has no position and is sorted by the payload
\* it was constructed with.
C19_Original ==
  pc = "sorted" =>
    /\ \A i, j \in 1..Len(model.items) :
         (model.items[i].kind = "VarDeclI" /\ model.items[j].kind # "VarDeclI") => i < j
    /\ \A d1, d2 \in TopUids :
         ItemIndex(d1) < ItemIndex(d2) => (pos[d1] >= 0 /\ pos[d1] < pos[d2])
    /\ \A p \in uses :
         (p[1] \in TopUids /\ p[2] \in TopUids) => ItemIndex(p[2]) < ItemIndex(p[1])
    /\ OtherItems(model.items) = OtherItems(ModelItems)

(***************************************************************************)
(* Claims about add_coercion (CoerceSpec).                                 *)
(***************************************************************************)
\* no base-type conversion is left to do between a and b
BtFits(a, b) == a.bt = b.bt \/ a.bt = "BT_BOT" \/ b.bt \in {"BT_TOP", "BT_BOT"}

\* C5 (as stated): whenever add_coercion(e, t) returns, the type of the
\* returned expression is a subtype of t, including in its par/var, optional
\* and set components.
C5_Original ==
  (coerced # NoCall /\ coerced.r.ok) => IsSubtype(coerced.r.ty, coerced.t)

\* C5 (amended): add_coercion compares dimensions and base types only.  When
\* the type of e already passes isSubtype against t (the test its callers
\* make first) and add_coercion returns, the type of the returned expression
\* is a subtype of t and no base-type conversion is left to do.
C5_CoercionOfSubtype ==
  (coerced # NoCall /\ coerced.r.ok /\ IsSubtype(coerced.e, coerced.t)) =>
    (IsSubtype(coerced.r.ty, coerced.t) /\ BtFits(coerced.r.ty, coerced.t))

\* `var bool: b; var int: x = b;`: the initialiser becomes bool2int(b) : var int
C5_Witness ==
  /\ coerced # NoCall /\ coerced.r.ok
  /\ coerced.e = [bt |-> "BT_BOOL", dim |-> 0, ti |-> "TI_VAR", ot |-> "OT_PRESENT",
                  st |-> "ST_PLAIN"]
  /\ coerced.t = [coerced.e EXCEPT !.bt = "BT_INT"]
  /\ coerced.r.wrap = <<"bool2int">>
  /\ coerced.r.ty = coerced.t

\* add_coercion was called on a scalar expression (dimension 0, no set) whose
\* base type differs from the target's, neither being top or bottom
ScalarBaseDiffers ==
  /\ coerced # NoCall
  /\ coerced.e.dim = 0 /\ coerced.e.st = "ST_PLAIN"
  /\ coerced.e.bt # coerced.t.bt
  /\ coerced.e.bt \notin {"BT_TOP", "BT_BOT"} /\ coerced.t.bt \notin {"BT_TOP", "BT_BOT"}

\* the conversion the widening lattice has from base type ebt to tbt
Widening(ebt, tbt) ==
  CASE ebt = "BT_BOOL" /\ tbt = "BT_INT" -> "bool2int"
    [] ebt = "BT_BOOL" /\ tbt = "BT_FLOAT" -> "bool2float"
    [] ebt = "BT_INT" /\ tbt = "BT_FLOAT" -> "int2float"
    [] OTHER -> "none"

\* the call returned e wrapped in the one call the lattice has, or raised
\* "cannot determine coercion" where the lattice has none
WrappedOrUndetermined ==
  IF Widening(coerced.e.bt, coerced.t.bt) # "none"
    THEN /\ coerced.r.ok
         /\ coerced.r.wrap = <<Widening(coerced.e.bt, coerced.t.bt)>>
         /\ coerced.r.ty = [coerced.e EXCEPT !.bt = coerced.t.bt]
    ELSE ~coerced.r.ok /\ coerced.r.msg = "cannot determine coercion"

\* C20 (as stated): for a scalar expression whose base type differs from the
\* target's (neither being top or bottom) add_coercion wraps a bool in
\* bool2int for an int target, a bool in bool2float for a float target and an
\* int in int2float for a float target, and raises "cannot determine
\* coercion" for every other pair.  Taken with the standard library loaded.
C20_Original ==
  (ScalarBaseDiffers /\ coerced.reg = StdRegistry(coerced.e)) => WrappedOrUndetermined

\* C20 (amended): the statement holds when the target has dimension 0 too, or
\* the expression is par and not optional, and matchFn finds the conversion.
\* A var or optional scalar against an array target raises "cannot coerce var
\* (opt) set into array" whatever the base types are, and a conversion matchFn
\* does not find raises "cannot determine coercion".  In no case is the
\* expression returned unchanged.
C20_ScalarCoercion ==
  ScalarBaseDiffers =>
    /\ ~(coerced.r.ok /\ coerced.r.wrap = <<>>)
    /\ IF coerced.t.dim # 0 /\ coerced.e.ti = "TI_VAR"
         THEN ~coerced.r.ok /\ coerced.r.msg = "cannot coerce var set into array"
       ELSE IF coerced.t.dim # 0 /\ coerced.e.ot = "OT_OPTIONAL"
         THEN ~coerced.r.ok /\ coerced.r.msg = "cannot coerce opt set into array"
       ELSE IF coerced.reg.conv THEN WrappedOrUndetermined
       ELSE ~coerced.r.ok /\ coerced.r.msg = "cannot determine coercion"

\* `int: n; float: f = n;`: the initialiser becomes int2float(n) : float
C20_Witness ==
  /\ ScalarBaseDiffers
  /\ coerced.e = [bt |-> "BT_INT", dim |-> 0, ti |-> "TI_PAR", ot |-> "OT_PRESENT",
                  st |-> "ST_PLAIN"]
  /\ coerced.t = [coerced.e EXCEPT !.bt = "BT_FLOAT"]
  /\ coerced.r.ok /\ coerced.r.wrap = <<"int2float">>
  /\ coerced.r.ty = coerced.t

(***************************************************************************)
(* Claims about the typing of declarations (TyperSpec).                    *)
(***************************************************************************)
\* C4 (as stated): a mismatch between the declared type and the type of the
\* initialiser is appended to the error list and does not abort the pass:
\* after the error is recorded the typing of the remaining items continues.
C4_Original ==
  [][(pc = "typing" /\ Len(typeErrors') > Len(typeErrors)) => pc' = "typing"]_vars

\* vBinOp has visited `sum(i in 1..5) (a[i] = 3) >= n` with a an array of var
\* int: a var sum over a comprehension with an integer equality body on the
\* left of >=, the bound variable on the left of the body only
SumGeqVisited ==
  /\ model.pass = "vBinOp"
  /\ model.bo.op = "BOT_GQ" /\ model.bo.isint /\ model.bo.callSide = "lhs"
  /\ model.bo.id = "sum" /\ model.bo.isvar /\ model.bo.innerOp = "BOT_EQ"
  /\ model.bo.lhsBound /\ ~model.bo.rhsBound /\ model.bo.found

\* C15 (as stated): the comparison `sum(i in 1..5) (a[i] = 3) >= n` is
\* rewritten into a call to count_geq (generated expression, compared value,
\* other side) with its declaration bound.
C15_Original ==
  SumGeqVisited =>
    /\ model.r.id = "count_geq"
    /\ model.r.args = <<"inner.lhs", "inner.rhs", "bop.rhs">>
    /\ model.r.decl

\* C15 (amended): the comparison `sum(i in 1..5) (a[i] = 3) >= n` is rewritten
\* into a call to count_leq (generated expression, compared value, other
\* side), the predicate that holds when its last argument is at most the
\* count, with its declaration bound.
C15_RewrittenToCountLeq ==
  SumGeqVisited =>
    /\ model.r.id = "count_leq"
    /\ model.r.args = <<"inner.lhs", "inner.rhs", "bop.rhs">>
    /\ model.r.decl

C15_Witness ==
  /\ SumGeqVisited
  /\ pc = "rewritten"
  /\ model.r.id = "count_leq"

\* the comparison bo with its two sides exchanged and its operator reversed
Exchanged(bo) ==
  [bo EXCEPT !.callSide = IF bo.callSide = "lhs" THEN "rhs" ELSE "lhs",
             !.op = CASE bo.op = "BOT_LQ" -> "BOT_GQ" [] bo.op = "BOT_LE" -> "BOT_GR"
                      [] bo.op = "BOT_GQ" -> "BOT_LQ" [] bo.op = "BOT_GR" -> "BOT_LE"
                      [] OTHER -> bo.op]

\* the arguments of the rewrite r of bo, the sides of bop named by what they
\* are: the sum or count call S or the other operand
ArgsOf(bo, r) ==
  [k \in DOMAIN r.args |->
     IF r.args[k] \in {"bop.lhs", "bop.rhs"}
       THEN IF (r.args[k] = "bop.lhs") = (bo.callSide = "lhs") THEN "S" ELSE "operand"
       ELSE r.args[k]]

\* C21: the count rewrite is invariant under mirroring the comparison: `S op
\* r` with the sum or count call S on the left and `r op' S` with S on the
\* right, op' being op reversed, are rewritten into the same count_ function
\* with the same arguments.  The code breaks it when r is a call too: the
\* left-hand call is the only one looked at.
C21_Original ==
  (pc = "rewritten" /\ model.pass = "vBinOp" /\ model.bo.callSide = "lhs"
     /\ model.bo.op # "BOT_PLUS" /\ model.r # NotRewritten) =>
    /\ RewriteCount(Exchanged(model.bo)).id = model.r.id
    /\ ArgsOf(Exchanged(model.bo), RewriteCount(Exchanged(model.bo))) = ArgsOf(model.bo, model.r)

\* vLet has typed a let, one of whose bindings is var
VarLetTyped ==
  /\ pc = "let typed" /\ model.pass = "vLet" /\ model.typed
  /\ \E k \in 1..Len(model.lets) : model.lets[k].isvar

\* C22 (as stated): the type of a let is the type of its in expression made
\* var whenever one of its bindings is var, for every base type and
\* dimension of the in expression.
C22_Original ==
  VarLetTyped => model.type = [model.in EXCEPT !.ti = "TI_VAR"]

\* C22 (amended): the type of a let with a var binding is the type of its in
\* expression made var only when that type is bool of dimension 0; for every
\* other base type or dimension, and for a let without var binding, it is the
\* type of the in expression as it is.
C22_LetType ==
  (pc = "let typed" /\ model.pass = "vLet" /\ model.typed) =>
    IF VarLetTyped /\ model.in.bt = "BT_BOOL" /\ model.in.dim = 0
      THEN model.type = [model.in EXCEPT !.ti = "TI_VAR"]
      ELSE model.type = model.in

\* `let { var int: x } in 3`: the let is par int, and `let { var int: x } in
\* true` would be var bool
C22_Witness ==
  /\ VarLetTyped
  /\ model.in = [bt |-> "BT_INT", dim |-> 0, ti |-> "TI_PAR", ot |-> "OT_PRESENT",
                 st |-> "ST_PLAIN"]
  /\ model.type = model.in
  /\ model.lets = <<[decl |-> TRUE, isvar |-> TRUE, init |-> FALSE, isbool |-> TRUE]>>

\* the places (generator, index in its where parts) conjunct k of the
\* original where clause has among the rebuilt generators
PlacesOf(k) ==
  {p \in UNION {{j} \X DOMAIN model.generators[j].where : j \in DOMAIN model.generators} :
     LET part == model.generators[p[1]].where[p[2]]
     IN part.part = "conjunct" /\ part.k = k}

\* the variable a conjunct is to be attached at: the latest declared one it
\* names, the first declared variable when it names none
LatestIn(ids) ==
  IF ids = <<>> THEN 1
  ELSE CHOOSE v \in {ids[a] : a \in DOMAIN ids} : \A a \in DOMAIN ids : ids[a] <= v

\* C25: after typing a comprehension every conjunct of the original where
\* clause occurs exactly once among the where clauses of the rebuilt
\* generators, at the generator that ends at the latest declared generator
\* variable the conjunct names (the first declared variable when it names
\* none), never before the introduction of a variable it names, and the
\* expression of an assignment generator is never conjoined with a conjunct.
\* The code breaks it: a conjunct that names no generator variable goes to
\* the first declared variable also when that is assigned by `i = expr`.
C25_Original ==
  (pc = "comprehension typed" /\ model.pass = "vComprehension") =>
    /\ \A k \in DOMAIN model.c.conj :
         /\ Cardinality(PlacesOf(k)) = 1
         /\ \A p \in PlacesOf(k) :
              LET g == model.generators[p[1]]
                  last == g.decls[Len(g.decls)]
              IN /\ model.c.genOf[LatestIn(model.c.conj[k])] \notin model.c.assign
                      => last = LatestIn(model.c.conj[k])
                 /\ \A a \in DOMAIN model.c.conj[k] : model.c.conj[k][a] <= last
    /\ \A j \in DOMAIN model.generators :
         model.generators[j].gen \in model.c.assign =>
           /\ Len(model.generators[j].where) = 1
           /\ model.generators[j].where[1].part = "expr"

(***************************************************************************)
(* Claims about the enum elaborator (EnumSpec).                            *)
(***************************************************************************)
\* the k-th member identifier, in declaration order, of the parts from p on
RECURSIVE NthMember(_, _, _)
NthMember(parts, p, k) ==
  IF k <= parts[p].n THEN Str("id", p, k) ELSE NthMember(parts, p + 1, k - parts[p].n)

RECURSIVE TotalCardinality(_, _)
TotalCardinality(parts, p) ==
  IF p = 0 THEN 0 ELSE TotalCardinality(parts, p - 1) + parts[p].n

\* C9 (as stated): for every enum E built from set-literal parts with total
\* cardinality n and every k in 1..n, _toString_E applied to k with both
\* flags false returns the spelling of the k-th member identifier in
\* declaration order.
C9_Original ==
  ( /\ pc = "evaluated" /\ shown # NoShow
    /\ \A p \in 1..Len(enumE.parts) : enumE.parts[p].kind = "set"
    /\ shown.x.occurs /\ ~shown.b /\ ~shown.json
    /\ shown.x.v \in 1..TotalCardinality(enumE.parts, Len(enumE.parts)) )
  => shown.r = NthMember(enumE.parts, 1, shown.x.v)

MemberValues(en) ==
  UNION {{en.members[p][k] : k \in 1..Len(en.members[p])} : p \in 1..Len(en.members)}

\* C12: after elaboration the right-hand side is 1..N with N the sum of the
\* cardinalities of the parts, the k-th member constant of a set-literal part
\* is bound to to_enum(E, k + offset) with offset the total cardinality of the
\* preceding parts, and the member values have no repeats and, for an enum of
\* set-literal parts only, no gaps in 1..N.
C12_RhsAndMembers ==
  (pc \in {"elaborated", "evaluated"}) =>
    LET parts == enumE.parts
        N == TotalCardinality(parts, Len(parts))
        setParts == {p \in 1..Len(parts) : parts[p].kind = "set"}
    IN /\ enumE.upperBound = N
       /\ \A p \in setParts :
            /\ Len(enumE.members[p]) = parts[p].n
            /\ \A k \in 1..parts[p].n :
                 enumE.members[p][k] = k + TotalCardinality(parts, p - 1)
       /\ \A p, q \in setParts : \A k \in 1..parts[p].n, j \in 1..parts[q].n :
            enumE.members[p][k] = enumE.members[q][j] => (p = q /\ k = j)
       /\ MemberValues(enumE) \subseteq 1..N
       /\ setParts = 1..Len(parts) => MemberValues(enumE) = 1..N

\* `enum E = {A, B} ++ {} ++ {C, D}` elaborated: D is to_enum(E, 4) and the
\* right-hand side is 1..4
C12_Witness ==
  /\ pc = "elaborated"
  /\ enumE.parts = << [kind |-> "set", n |-> 2, min |-> 1],
                      [kind |-> "set", n |-> 0, min |-> 1],
                      [kind |-> "set", n |-> 2, min |-> 1] >>
  /\ enumE.members[3][2] = 4
  /\ enumE.upperBound = 4

\* C28: during enum elaboration the list of cumulative part cardinalities
\* has exactly one entry per processed part, for every combination of part
\* kinds, a set literal without identifiers included, so that in the
\* multi-part dispatch partCardinality[i] is defined for every part i and is
\* the total cardinality of the parts up to i.  The code breaks it: a set
\* literal pushes its entry when it meets its last identifier, and one
\* without identifiers pushes none.
C28_Original ==
  (pc \in {"elaborated", "evaluated"} /\ enumE # NoEnum) =>
    /\ Len(enumE.partCardinality) = Len(enumE.parts)
    /\ \A i \in 1..Len(enumE.parts) :
         enumE.partCardinality[i] = TotalCardinality(enumE.parts, i)

(***************************************************************************)
(* Claims about the end of typecheck (FinalSpec).                          *)
(***************************************************************************)
\* the "must be defined" error recorded for declaration i
IsUndefinedError(te, i) == te = [msg |-> "must be defined", decl |-> i]

\* C13: at the end of typecheck, for every toplevel declaration of par,
\* non-annotation type without initialiser: an optional scalar has the
\* initialiser absent and the annotation mzn_was_undefined and no error;
\* any other one has a "must be defined" error in the error list if and only
\* if ignoreUndefinedParameters is false.
C13_UndefinedParameters ==
  model.pass = "returned" =>
    \A i \in 1..Len(model.given) :
      LET given == model.given[i]
          decl == model.decls[i]
          reported == \E k \in 1..Len(typeErrors) : IsUndefinedError(typeErrors[k], i)
      IN ( /\ given.toplevel /\ given.tiType.ti = "TI_PAR"
           /\ given.tiType.bt # "BT_ANN" /\ given.e = "none" ) =>
           IF given.tiType.ot = "OT_OPTIONAL" /\ given.tiType.dim = 0
             THEN decl.e = "absent" /\ "mzn_was_undefined" \in decl.ann /\ ~reported
             ELSE reported <=> ~model.ignoreUndefinedParameters

\* `opt int: a; array[int] of int: b;` with ignoreUndefinedParameters false:
\* a is absent, b is reported, and that is the only error
C13_Witness ==
  /\ model.pass = "returned" /\ ~model.ignoreUndefinedParameters
  /\ model.given[1] = SortedDecl(TRUE, [bt |-> "BT_INT", dim |-> 0, ti |-> "TI_PAR",
                                        ot |-> "OT_OPTIONAL", st |-> "ST_PLAIN",
                                        enumId |-> 0], "none")
  /\ model.given[2] = SortedDecl(TRUE, [bt |-> "BT_INT", dim |-> 1, ti |-> "TI_PAR",
                                        ot |-> "OT_PRESENT", st |-> "ST_PLAIN",
                                        enumId |-> 0], "none")
  /\ model.decls[1].e = "absent"
  /\ typeErrors = <<[msg |-> "must be defined", decl |-> 2]>>

\* C14 (as stated): when typecheck returns, every declaration of the sorted
\* declaration list has vd.type = vd.ti.type, enum declarations included
\* after the step that demotes their "is enum" flag.
C14_Original ==
  model.pass = "returned" =>
    \A i \in 1..Len(model.decls) : model.decls[i].type = model.decls[i].tiType

(***************************************************************************)
(* Claims about the passes of the driver (DriverSpec).                     *)
(***************************************************************************)
\* C16: when an assignment item is folded, the item is removed from the
\* model; an initialiser changes only if it is that of the assigned
\* declaration, which had none, and it becomes the item's right-hand side
\* with the annotation rhs_from_assignment; an assignment to a declaration
\* that has an initialiser leaves every declaration as it is and adds the
\* constraint `id = rhs` when multi-assignment is allowed, or else appends
\* the error "multiple assignment to the same variable".
C16_AssignmentFolding ==
  [][ (model.pass = "assign" /\ model'.pass = "assign" /\ model'.i = model.i + 1) =>
        LET ai == model.items[model.i]
            known == ai.id \in DOMAIN model.decls
        IN /\ model'.items[model.i].removed
           /\ \A d \in DOMAIN model.decls :
                model'.decls[d].e # model.decls[d].e =>
                  /\ d = ai.id /\ model.decls[d].e = "none" /\ model'.decls[d].e = ai.e
                  /\ "rhs_from_assignment" \in model'.decls[d].ann
           /\ (known /\ model.decls[ai.id].e = "none") =>
                /\ model'.decls[ai.id].e = ai.e
                /\ "rhs_from_assignment" \in model'.decls[ai.id].ann
                /\ model'.constraints = model.constraints /\ typeErrors' = typeErrors
           /\ (known /\ model.decls[ai.id].e # "none") =>
                /\ model'.decls = model.decls
                /\ IF model.allowMultiAssignment
                     THEN /\ model'.constraints =
                               Append(model.constraints, [lhs |-> ai.id, rhs |-> ai.e])
                          /\ typeErrors' = typeErrors
                     ELSE /\ model'.constraints = model.constraints
                          /\ typeErrors' =
                               Append(typeErrors, "multiple assignment to the same variable")
    ]_vars

\* `int: x; x = r1; x = r2;` with multi-assignment allowed: x is r1, the
\* constraint x = r2 has been added and both items are removed
C16_Witness ==
  /\ model.pass = "assign" /\ model.i = 3 /\ model.allowMultiAssignment
  /\ model.decls.x.e = "r1" /\ "rhs_from_assignment" \in model.decls.x.ann
  /\ model.constraints = <<[lhs |-> "x", rhs |-> "r2"]>>
  /\ model.items[1].removed /\ model.items[2].removed
  /\ typeErrors = <<>>

\* the cross-check of the checker variables has run
CheckVarsDone == model.pass = "checker" /\ model.i > Len(model.checkVars)

\* an error of the solution checker is recorded for checker variable k
CheckerError(k) ==
  \E n \in 1..Len(typeErrors) : typeErrors[n].k = k

\* C17 (as stated): for every variable required by a checker model an error
\* is accumulated whenever the model has no declaration of that name or the
\* model declaration's type is not a subtype of the checker-declared type;
\* otherwise no error is recorded and the declaration gets mzn_check_var.
C17_Original ==
  CheckVarsDone =>
    \A k \in 1..Len(model.checkVars) :
      LET vd_k == model.checkVars[k] IN
      IF vd_k.id \notin DOMAIN model.decls
           \/ ~IsSubtype(model.decls[vd_k.id].type, vd_k.type)
        THEN CheckerError(k)
        ELSE ~CheckerError(k) /\ "mzn_check_var" \in model.decls[vd_k.id].ann

\* C17 (amended): for every variable required by a checker model an error is
\* accumulated exactly when the model has no declaration of that name and
\* the checker declares it par, or the model has one and the
\* checker-declared type is not a subtype of the model declaration's type; a
\* variable the checker declares var may be missing; whenever the
\* declaration exists it gets the mzn_check_var annotation.
C17_CheckerVariables ==
  CheckVarsDone =>
    \A k \in 1..Len(model.checkVars) :
      LET vd_k == model.checkVars[k] IN
      IF vd_k.id \notin DOMAIN model.decls
        THEN CheckerError(k) <=> vd_k.type.ti = "TI_PAR"
        ELSE /\ CheckerError(k) <=> ~IsSubtype(vd_k.type, model.decls[vd_k.id].type)
             /\ "mzn_check_var" \in model.decls[vd_k.id].ann

\* the checker declares `var int: u; int: x;`, the model `var int: x;` only:
\* nothing is recorded and x is annotated
C17_Witness ==
  /\ CheckVarsDone /\ Len(model.checkVars) = 2
  /\ model.checkVars[1].id = "u" /\ model.checkVars[1].type.ti = "TI_VAR"
  /\ model.checkVars[2].id = "x" /\ model.checkVars[2].type.ti = "TI_PAR"
  /\ model.checkVars[2].type.bt = "BT_INT"
  /\ model.decls.x.type.ti = "TI_VAR" /\ model.decls.x.type.bt = "BT_INT"
  /\ typeErrors = <<>>
  /\ "mzn_check_var" \in model.decls.x.ann

\* every output item has contributed its expression to env.outputSections
\* under its section name, or "default", and is removed from the model
OutputItemsCollected ==
  /\ Len(model.outputSections) = Len(model.items)
  /\ \A k \in 1..Len(model.items) :
       /\ model.items[k].removed
       /\ model.outputSections[k] =
            [section |-> IF model.items[k].section = "none" THEN "default"
                         ELSE model.items[k].section,
             e |-> model.items[k].e]

\* C18 (as stated): after typecheck of a non-FlatZinc model every output item
\* has contributed its expression to env.outputSections under the name of
\* its mzn_output_section annotation, or "default", and has been removed,
\* whatever the content of the error list.
C18_Original ==
  (model.pass = "output done" /\ ~model.isFlatZinc) => OutputItemsCollected

\* C18 (amended): after typecheck of a non-FlatZinc model, when the error
\* list is empty as TSV4 is reached, every output item has contributed its
\* expression under the name of its annotation, or "default", and has been
\* removed; when the error list is not empty no output item is removed and
\* env.outputSections receives nothing.
C18_OutputSections ==
  (model.pass = "output done" /\ ~model.isFlatZinc) =>
    IF typeErrors = <<>>
      THEN OutputItemsCollected
      ELSE /\ model.outputSections = <<>>
           /\ \A k \in 1..Len(model.items) : ~model.items[k].removed

\* `output r1 :: mzn_output_section("a"); output r2;` without errors
C18_Witness ==
  /\ model.pass = "output done" /\ ~model.isFlatZinc /\ typeErrors = <<>>
  /\ Len(model.items) = 2
  /\ model.outputSections = <<[section |-> "a", e |-> "r1"],
                              [section |-> "default", e |-> "r2"]>>
  /\ model.items[1].removed /\ model.items[2].removed

(***************************************************************************)
(* Claims about the pruning of fnsToMakePar (ParSpec).                     *)
(***************************************************************************)
\* every dependency of a function of s is in s
DepClosed(s) == \A f \in s : model.deps[f] \subseteq s

\* C23: the pruning loop always terminates, and when it does the remaining
\* functions are the greatest subset of the initial candidates that is
\* closed under the recorded dependencies: every dependency of a remaining
\* function remains, and no function of a dependency-closed subset of the
\* initial candidates (mutually recursive ones included) has been removed.
C23_PruningFixpoint ==
  /\ <>(pc = "pruned")
  /\ [](pc = "pruned" =>
          /\ model.fns \subseteq model.initial
          /\ DepClosed(model.fns)
          /\ \A s \in SUBSET model.initial : DepClosed(s) => s \subseteq model.fns)

\* two mutually recursive candidates are kept and a third one, which depends
\* on a function outside the map, was removed
C23_Witness ==
  /\ pc = "pruned" /\ model.initial = FnName /\ model.rounds = 2
  /\ \E f, g \in model.fns :
       f # g /\ model.deps[f] = {g} /\ model.deps[g] = {f} /\ model.fns = {f, g}

(***************************************************************************)
(* Claims about the walk of the annotations (AnnSpec).                     *)
(***************************************************************************)
\* C24: when env.ignoreUnknownIds is set, walking the annotations of an
\* expression never propagates a TypeError, and after run(e) the annotations
\* of e are exactly the original ones whose walk succeeded, each failing one
\* removed, each succeeding one kept and walked exactly once.  The code
\* breaks it: a failing annotation is removed from the set while the
\* iterator is at it, and the iterator is incremented afterwards.
C24_Original ==
  ignoreUnknownIds =>
    /\ pc \in {"annotations", "returned"}
    /\ pc = "returned" =>
         /\ model.present = {k \in 1..Len(model.fails) : ~model.fails[k]}
         /\ \A k \in model.present : model.walked[k] = 1

(***************************************************************************)
(* Claims about the driver (SolverSpec).                                   *)
(***************************************************************************)
\* C29: after any sequence of createSI and destroySI calls the storage of
\* the factory holds exactly the instances created and not yet destroyed,
\* each once; createSI throws and leaves the storage unchanged when
\* doCreateSI yields no instance, and destroySI of an instance that is not
\* in the storage throws and leaves the storage unchanged.
C29_FactoryStorage ==
  model.pass = "factory" =>
    /\ {model.sistorage[i] : i \in DOMAIN model.sistorage} = (1..model.made) \ model.gone
    /\ \A i, j \in DOMAIN model.sistorage : model.sistorage[i] = model.sistorage[j] => i = j
    /\ (model.last.op = "createSI" /\ model.last.pSI = 0) =>
         (model.last.threw /\ model.sistorage = model.last.before)
    /\ ( /\ model.last.op = "destroySI"
         /\ \A i \in DOMAIN model.last.before : model.last.before[i] # model.last.pSI ) =>
         (model.last.threw /\ model.sistorage = model.last.before)

\* three instances were created and the second one destroyed; destroying it
\* once more has thrown
C29_Witness ==
  /\ model.pass = "factory" /\ model.sistorage = <<1, 3>> /\ model.gone = {2}
  /\ model.last = [op |-> "destroySI", pSI |-> 2, threw |-> TRUE, before |-> <<1, 3>>]

\* C30: the exit status of the driver is zero only when no error was
\* reported: whenever flattening ends with status ERROR, an exception is
\* caught in main or the solver returns status ERROR, the line
\* =====ERROR===== is printed and the process exits with a status that is
\* not zero.  The code breaks it: fSuccess is set before the solver is run.
C30_Original ==
  ( /\ model.pass = "main" /\ model.at = "exited"
    /\ (model.flt = "ERROR" \/ model.caught \/ model.si = "ERROR") ) =>
    /\ \E i \in DOMAIN model.out : model.out[i] = "=====ERROR====="
    /\ model.status # 0

(***************************************************************************)
(* Claims about the scope stack.                                           *)
(***************************************************************************)
Max(S) == CHOOSE x \in S : \A y \in S : y <= x

SeqSet(q) == {q[i] : i \in 1..Len(q)}

\* an Add step: the unprimed variables are the state Scopes::add was called in
IsAddStep == lastOp'.op = "add" /\ lastOp'.tick # lastOp.tick

\* index of the nearest scope at or below n that satisfies the kind test
NearestToplevel(s, n) == Max({i \in 1..n : IsToplevel(s[i])})

NearestNonInner(s, n) == Max({i \in 1..n : s[i].st # "ST_INNER"})

\* C6: Scopes::find consults the scopes from the top of the stack down to the
\* nearest toplevel scope, one at a time, stops at the first that holds the id,
\* and otherwise goes straight to scope 0; it returns null only if scope 0 lacks
\* the id, and never consults a scope strictly between that toplevel scope and
\* scope 0.
C6_FindOrder ==
  lastOp.op = "find" =>
    LET n == Len(scopes)
        t == NearestToplevel(scopes, n)
        holders == {i \in t..n : Has(scopes[i], lastOp.id)}
        seen == lastOp.seen
    IN
    /\ \A i \in 1..(Len(seen) - 1) : seen[i] > seen[i + 1]
    /\ IF holders # {}
         THEN /\ SeqSet(seen) = Max(holders)..n
              /\ lastOp.decl = scopes[Max(holders)].m[lastOp.id]
         ELSE /\ SeqSet(seen) = (t..n) \cup {1}
              /\ lastOp.decl = scopes[1].m[lastOp.id]
    /\ (lastOp.decl = NoDecl) => ~Has(scopes[1], lastOp.id)
    /\ \A i \in 2..(t - 1) : i \notin SeqSet(seen)

\* a find from a pushed toplevel scope that skipped a scope holding the id
C6_Witness ==
  /\ lastOp.op = "find"
  /\ Len(scopes) = 3
  /\ IsToplevel(scopes[3])
  /\ ~Has(scopes[3], lastOp.id)
  /\ Has(scopes[2], lastOp.id)
  /\ lastOp.seen = <<3, 1>>

\* C7: Scopes::add throws whenever the current scope already maps the
\* identifier of vd, for every identifier but the anonymous one; adding the
\* anonymous identifier never throws (and records nothing).
C7_AddDuplicateThrows ==
  [][IsAddStep =>
       LET ident == lastOp'.id
           top == scopes[Len(scopes)]
       IN
       /\ (ident # AnonId /\ Has(top, ident)) =>
            (lastOp'.err # "none" /\ scopes' = scopes)
       /\ (ident # AnonId /\ ~Has(top, ident) /\ ~lastOp'.enum) =>
            (lastOp'.err = "none" /\ Has(scopes'[Len(scopes)], ident))
       /\ (ident = AnonId) => (lastOp'.err = "none" /\ scopes' = scopes)]_vars

C7_Witness ==
  /\ lastOp.op = "add"
  /\ lastOp.err = "already defined"
  /\ lastOp.id # AnonId

\* C8 as stated: an add in an inner scope of a name held by some enclosing
\* toplevel or function scope emits a shadow warning and raises no error
\* (read in its favour: vd is no enum and the inner scope lacks the name).
C8_Original ==
  [][(/\ IsAddStep
      /\ scopes[Len(scopes)].st = "ST_INNER"
      /\ ~lastOp'.enum
      /\ ~Has(scopes[Len(scopes)], lastOp'.id)
      /\ \E i \in 1..(Len(scopes) - 1) :
            scopes[i].st # "ST_INNER" /\ Has(scopes[i], lastOp'.id))
       => (lastOp'.warned /\ lastOp'.err = "none")]_vars

\* C8 amended: for a named declaration that is no enum, added in an inner
\* scope, the shadow warning is emitted exactly when the name is held by an
\* enclosing inner scope or by the nearest enclosing toplevel or function scope
\* (no scope below that one is examined), and an error is raised exactly when
\* the current scope itself already holds the name.
C8_ShadowNearest ==
  [][(/\ IsAddStep
      /\ scopes[Len(scopes)].st = "ST_INNER"
      /\ lastOp'.id # AnonId
      /\ ~lastOp'.enum)
       => LET n == Len(scopes)
              b == NearestNonInner(scopes, n - 1)
          IN
          /\ lastOp'.warned <=> \E i \in b..(n - 1) : Has(scopes[i], lastOp'.id)
          /\ lastOp'.err # "none" <=> Has(scopes[n], lastOp'.id)]_vars

\* the name lives in scope 0 below a function or toplevel scope: no warning
C8_Witness ==
  /\ lastOp.op = "add"
  /\ lastOp.err = "none"
  /\ ~lastOp.warned
  /\ Len(scopes) = 3
  /\ scopes[3].st = "ST_INNER"
  /\ scopes[2].st # "ST_INNER"
  /\ ~Has(scopes[2], lastOp.id)
  /\ Has(scopes[1], lastOp.id)
  /\ Has(scopes[3], lastOp.id)

====
